---------------------------- MODULE Spec2Model ----------------------------
(***************************************************************************)
(* pg-multiverse: multi-cluster PostgreSQL routing and coordination layer. *)
(*                                                                         *)
(* The module models parts of the program, each with its own               *)
(* specification over the shared variables:                                *)
(*   SpecRoute    ClusterManager registry, health mirroring, getConnection *)
(*   SpecQuery    MultiClusterPostgres.query on an initialized manager     *)
(*   SpecTx       DistributedTransaction begin / commit / rollback (2PC)   *)
(*   SpecMig      MigrationManager migrate / rollback of one runner        *)
(*   SpecMigLock  two runners migrating the same database                  *)
(***************************************************************************)
EXTENDS Integers, Sequences, FiniteSets, TLC

\* ------------------------------------------------------------------------
\* Universe of identifiers and bounds
\* ------------------------------------------------------------------------
None == "none"

ClusterIds == {"A", "B"}
\* an id that no configuration registers
UnknownCluster == "Z"
Schemas == {"users", "orders"}
\* a schema name that no configuration lists
Ghost == "ghost"

MaxReplicas == 2

\* transactions begun in one run
MaxTx == 2

TxIds == 1..MaxTx

\* migration versions, numbered in the order of their version strings
MaxVersion == 2

Versions == 1..MaxVersion

\* completed executions of one up that are counted
MaxUpRuns == 2
\* statements one transaction executes
MaxExec == 2
\* events of one cluster that are recorded
MaxHealthEvents == 4
\* longest replica list given to a LoadBalancer on its own, and the number of
\* selections made on it
MaxList == 4
MaxSelections == 8
\* MemoryCache: the largest maxSize, the last reading of the clock, the
\* default ttl, and the accessCount up to which entries are read
MaxCacheSize == 2
MaxTime == 3
DefaultTtl == 2
MaxAccess == 2
\* largest maxParallel given to migrate
MaxParallel == 2

\* processes running a MigrationManager against the same database
Runners == {"r1", "r2"}

\* ------------------------------------------------------------------------
\* Sequence helpers
\* ------------------------------------------------------------------------
Range(s) == {s[i] : i \in 1..Len(s)}

SelectSeqIds(s, S) == SelectSeq(s, LAMBDA x : x \in S)

\* all sequences over S without repetition
RECURSIVE PermsOf(_)
PermsOf(S) ==
  IF S = {} THEN {<<>>}
  ELSE UNION {{<<x>> \o p : p \in PermsOf(S \ {x})} : x \in S}

OrderedSubsets(S) == UNION {PermsOf(T) : T \in SUBSET S}

\* ------------------------------------------------------------------------
\* State
\* ------------------------------------------------------------------------
VARIABLES
  \* ClusterManager
  isInitialized,     \* ClusterManager.isInitialized
  clusterOrder,      \* keys of ClusterManager.clusters, in insertion order
  clusterStatus,     \* ClusterInfo.status of each registered cluster
  clusterSchemas,    \* ClusterInfo.config.schemas
  primaryPool,       \* ClusterInfo.pools.primary
  replicaPools,      \* ClusterInfo.pools.replicas
  schemaClusterMap,  \* ClusterManager.schemaClusterMap
  healthData,        \* HealthChecker.healthData (healthy flag)
  currentIndex,      \* LoadBalancer.currentIndex
  connRet,           \* outcome of the last getConnection / query call
  hcInFlight,        \* checkClusterHealth calls that await their probes
  hcLog,             \* events the HealthChecker emitted for each cluster
  coord,             \* MultiClusterPostgres: whether the configuration came from
                     \* the file of its ClusterConfig, what registerSchema wrote
                     \* to its schemas map, how the last registerSchema ended
  \* DistributedTransaction
  nextTx,            \* number of transaction ids handed out by uuidv4
  txState,           \* DistributedTransactionState.state
  txClusters,        \* DistributedTransactionState.clusters
  txConns,           \* keys of DistributedTransactionState.connections
  activeTransactions, \* keys of DistributedTransaction.activeTransactions
  sent,              \* statements issued on the connection of (tx, cluster)
  pending,           \* statements of the awaited batch not yet answered
  batchFail,         \* clusters whose statement of the awaited batch failed
  prepOk,            \* clusters whose PREPARE TRANSACTION succeeded
  cpOk,              \* clusters whose COMMIT PREPARED succeeded
  pc,                \* position of the call in flight on a transaction
  txRet,             \* how commit / rollback of a transaction returned
  txEvents,          \* events emitted per transaction, by kind
  metrics,           \* DistributedTransaction.metrics
  borrowed,          \* connections handed out to transactions, not released
  rbPc,              \* position of the rollback call in flight on a transaction
  rbPending,         \* ROLLBACK statements of that call not yet answered
  closer,            \* position of MultiClusterPostgres.close and the ids left
  txDeadline,        \* the timeout given to begin, and whether it has passed
  wtPc,              \* position of the withTransaction call that owns a transaction
  \* MigrationManager (one per runner) and the control tables
  migrations,        \* MigrationManager.migrations, the same files for every runner
  records,           \* versions with a row in the migrations table
  lockRows,          \* rows of the lock table, by lock key
  upCount,           \* completed executions of a migration's up
  rpc,               \* position of each runner in migrate / rollback
  plan,              \* what is left of the list a runner iterates over
  ropts,             \* options of the call a runner is in
  rbInfo,            \* what a runner's last rollback started from
  migRet,            \* how a runner's call returned, until the runner takes it
  mcalls,            \* which runners have called, and whether any rolled back
  tablesExist,       \* the control tables exist in the cluster's database
  \* LoadBalancer in use on one replica list
  lbList,            \* length of the replica list given to selectReplica,
                     \* and currentIndex when the list was first given
  lbLog,             \* the indices selectReplica returned, in call order
  \* MemoryCache
  cacheCfg,          \* MemoryCache.maxSize and MemoryCache.strategy
  cacheKeys,         \* keys of MemoryCache.cache, in insertion order
  cache,             \* the CacheEntry stored under each of those keys
  now,               \* Date.now()
  cacheRet,          \* what the last call on the cache returned
  \* ConnectionPool
  cpool,             \* isReady, isClosed, where _initialize stands, and
                     \* whether end() was called on the driver's pool
  acq,               \* position and outcome of each caller's getConnection
  \* MigrationManager._executeParallel
  par,               \* the batches of a parallel migrate and where each of
                     \* its _executeMigration calls stands
  reload,            \* ClusterManager.updateConfig: the _removeCluster and
                     \* _registerCluster calls it has still to make
  stats,             \* ClusterManager.stats: totalQueries, failedQueries and
                     \* activeConnections, as counted by executeQuery, getConnection
                     \* and the release of a wrapped connection
  conns,             \* ConnectionPool.metrics of all pools together: the connections
                     \* handed out (acquired) and given back (released)
  fb,                \* FallbackCacheProvider: whether the primary provider is healthy,
                     \* whether fallbackProvider is set, what the two providers hold,
                     \* the value set last for each key, the result of the last get
  txm,               \* DistributedTransaction.metrics as kept by commit and rollback:
                     \* active, committed, aborted, avgDuration (a fraction), and
                     \* the durations of the calls that ended a transaction
  lk,                \* the lock table with the locked_by of every row, and where each
                     \* runner stands in the lock protocol of _executeMigration
  rrLog,             \* the replica indexes selected for the reads of each cluster,
                     \* in the order of the reads
  poolReady          \* the pools whose ConnectionPool.isReady is true

cmVars == <<isInitialized, clusterOrder, clusterStatus, clusterSchemas,
            primaryPool, replicaPools, schemaClusterMap, healthData,
            currentIndex, connRet, hcInFlight, hcLog, coord>>

txVars == <<nextTx, txState, txClusters, txConns, activeTransactions, sent,
            pending, batchFail, prepOk, cpOk, pc, txRet, txEvents, metrics,
            borrowed, rbPc, rbPending, closer, txDeadline, wtPc>>

\* what only rollback, close, begin with a timeout and withTransaction change
callVars == <<rbPc, rbPending, closer, txDeadline, wtPc>>

migVars == <<migrations, records, lockRows, upCount, rpc, plan, ropts, rbInfo,
             migRet, mcalls, tablesExist>>

cacheVars == <<cacheCfg, cacheKeys, cache, now, cacheRet>>

poolVars == <<cpool, acq>>

parVars == <<par>>

updVars == <<reload>>

statVars == <<stats, conns>>

fbVars == <<fb>>

durVars == <<txm>>

lkVars == <<lk>>

rrVars == <<rrLog, poolReady>>

libVars == <<lbList, lbLog, cacheVars, poolVars, parVars, updVars,
            statVars,
            fbVars,
            durVars,
            lkVars,
            rrVars>>

vars == <<cmVars, txVars, migVars, libVars>>

\* ------------------------------------------------------------------------
\* ConnectionPool identity (poolId = clusterId + "_primary" | "_replica_" + i)
\* ------------------------------------------------------------------------
PoolId(c, role, i) == <<c, role, i>>

\* ------------------------------------------------------------------------
\* Configuration documents handed to initialize
\* ------------------------------------------------------------------------
ClusterConfigs == [schemas : SUBSET Schemas, replicas : 0..MaxReplicas]

Configs == [ClusterIds -> ClusterConfigs]

\* what a call returned: the pool the connection came from (slot primary or
\* replica), the clusterId of its metadata, the branch that resolved the
\* target (by), the status of the target at the time of the call
NoRet == [op |-> None, req |-> None, sql |-> None, outcome |-> None,
          err |-> None, cluster |-> None, pool |-> None, slot |-> None,
          meta |-> None, operation |-> None, by |-> None, status |-> None,
          events |-> {}]

HealthAbsent == "absent"

QueryOptions ==
  [schema : Schemas \cup {Ghost, None},
   clusterId : ClusterIds \cup {UnknownCluster, None},
   operation : {None, "read", "write"},
   consistencyLevel : {None, "eventual", "strong"}]

\* ------------------------------------------------------------------------
\* HealthChecker.checkClusterHealth and the ClusterManager event handlers
\* ------------------------------------------------------------------------
\* previousHealth?.healthy ?? true
WasHealthy(hd, c) == IF hd[c] = HealthAbsent THEN TRUE ELSE hd[c] = "healthy"

\* a variant that reports every failed check, whatever was recorded before
HealthEvents_EveryFailure(hd, c, healthy) ==
  IF ~healthy THEN <<"clusterDown">>
  ELSE IF ~WasHealthy(hd, c) /\ healthy /\ hd[c] # HealthAbsent
       THEN <<"clusterRecovered", "clusterUp">>
       ELSE <<>>

\* events emitted by one completed check, in emission order
HealthEvents(hd, c, healthy) ==
  IF WasHealthy(hd, c) /\ ~healthy THEN <<"clusterDown">>
  ELSE IF ~WasHealthy(hd, c) /\ healthy /\ hd[c] # HealthAbsent
       THEN <<"clusterRecovered", "clusterUp">>
       ELSE <<>>

\* ClusterManager._setupEventHandlers: status mirrors the events
RECURSIVE ApplyHealthEvents(_, _)
ApplyHealthEvents(status, evs) ==
  IF evs = <<>> THEN status
  ELSE ApplyHealthEvents(
         IF Head(evs) = "clusterDown" THEN "down"
         ELSE IF Head(evs) = "clusterUp" THEN "active"
         ELSE status,
         Tail(evs))

StatusAfterCheck(hd, st, c, healthy) ==
  ApplyHealthEvents(st[c], HealthEvents(hd, c, healthy))

\* ------------------------------------------------------------------------
\* ClusterManager._registerCluster
\* ------------------------------------------------------------------------
ReplicaPoolsOf(c, n) == [i \in 1..n |-> PoolId(c, "replica", i - 1)]

\* schemaClusterMap after registering the clusters of `order` one by one:
\* a later registration overwrites the mapping of an earlier one
RECURSIVE MapSchemas(_, _, _)
MapSchemas(map, order, cfg) ==
  IF order = <<>> THEN map
  ELSE LET c == Head(order)
       IN MapSchemas([s \in DOMAIN map |->
                        IF s \in cfg[c].schemas THEN c ELSE map[s]],
                     Tail(order), cfg)

EmptySchemaMap == [s \in Schemas \cup {Ghost} |-> None]

Registered == Range(clusterOrder)

\* ------------------------------------------------------------------------
\* ClusterManager.initialize
\* ------------------------------------------------------------------------
\* `order` is the key order of the configuration object and `reg` the number
\* of clusters whose primary pool became ready: registration stops at the
\* first primary that does not, and initialize then fails with the clusters
\* registered so far left in place. healthChecker.start records every cluster
\* as healthy (createInitialHealth) and runs performHealthCheck once; a probe
\* that fails in that first round leaves the state that a CheckClusterHealth
\* step with healthy = FALSE leaves, so the first round is those steps.
Initialize(order, cfg, reg) ==
  /\ ~isInitialized
  /\ reg \in 0..Len(order)
  /\ LET done == SubSeq(order, 1, reg)
         ok == reg = Len(order)
         \* Map.set keeps the position of a key that is already present
         newOrder == clusterOrder \o
                     SelectSeq(done, LAMBDA x : x \notin Range(clusterOrder))
     IN /\ clusterOrder' = newOrder
        /\ clusterSchemas' = [c \in ClusterIds |->
              IF c \in Range(done) THEN cfg[c].schemas ELSE clusterSchemas[c]]
        /\ primaryPool' = [c \in ClusterIds |->
              IF c \in Range(done) THEN PoolId(c, "primary", 0)
              ELSE primaryPool[c]]
        /\ replicaPools' = [c \in ClusterIds |->
              IF c \in Range(done) THEN ReplicaPoolsOf(c, cfg[c].replicas)
              ELSE replicaPools[c]]
        /\ schemaClusterMap' = MapSchemas(schemaClusterMap, done, cfg)
        /\ clusterStatus' = [c \in ClusterIds |->
              IF c \in Range(done) THEN "active" ELSE clusterStatus[c]]
        /\ isInitialized' = ok
        /\ healthData' = [c \in ClusterIds |->
              IF ok /\ c \in Range(newOrder) THEN "healthy" ELSE healthData[c]]
  /\ UNCHANGED <<currentIndex, connRet, hcInFlight, hcLog, coord>>
  /\ UNCHANGED <<txVars, migVars, libVars>>

\* ------------------------------------------------------------------------
\* HealthChecker.performHealthCheck / forceCheck for one cluster
\* ------------------------------------------------------------------------
\* what a check does once its probes are answered: previousHealth is read,
\* the events are emitted and healthData is set without an await in between
CheckCompletes(c, healthy) ==
  /\ isInitialized
  /\ c \in Registered
  /\ healthData' = [healthData EXCEPT ![c] =
                      IF healthy THEN "healthy" ELSE "unhealthy"]
  /\ clusterStatus' = [clusterStatus EXCEPT ![c] =
                        StatusAfterCheck(healthData, clusterStatus, c, healthy)]
  /\ UNCHANGED <<isInitialized, clusterOrder, clusterSchemas, primaryPool,
                 replicaPools, schemaClusterMap, currentIndex, connRet>>
  /\ UNCHANGED <<txVars, migVars, libVars>>

\* one check of a cluster from start to end, its events not recorded
CheckClusterHealth(c, healthy) ==
  /\ CheckCompletes(c, healthy)
  /\ UNCHANGED <<hcInFlight, hcLog, coord>>

\* the callers of checkClusterHealth: the interval timer through
\* performHealthCheck, and forceCheck
CheckKinds == {"periodic", "forced"}

\* checkClusterHealth up to its first await; a check of either kind may start
\* while one of the other kind is awaiting its probes
HcStart(c, kind) ==
  /\ isInitialized
  /\ c \in Registered
  /\ kind \notin hcInFlight[c]
  /\ hcInFlight' = [hcInFlight EXCEPT ![c] = @ \cup {kind}]
  /\ UNCHANGED <<isInitialized, clusterOrder, clusterStatus, clusterSchemas,
                 primaryPool, replicaPools, schemaClusterMap, healthData,
                 currentIndex, connRet, hcLog, coord>>
  /\ UNCHANGED <<txVars, migVars, libVars>>

\* the probes of a check in flight are answered (healthy) or one of them
\* fails, and the check completes
HcComplete(c, kind, healthy) ==
  /\ kind \in hcInFlight[c]
  /\ Len(hcLog[c]) + Len(HealthEvents(healthData, c, healthy)) <= MaxHealthEvents
  /\ CheckCompletes(c, healthy)
  /\ hcInFlight' = [hcInFlight EXCEPT ![c] = @ \ {kind}]
  /\ hcLog' = [hcLog EXCEPT ![c] = @ \o HealthEvents(healthData, c, healthy)]
  /\ UNCHANGED coord

\* ------------------------------------------------------------------------
\* LoadBalancer.selectReplica (strategy round_robin, the default)
\* ------------------------------------------------------------------------
\* roundRobinSelect advancing currentIndex by two
roundRobinSelect_Skip(n, cur) == <<cur % n, (cur + 2) % n>>

\* <<index, currentIndex'>> for a replica list of length n >= 1
roundRobinSelect(n, cur) == <<cur % n, (cur + 1) % n>>

selectReplica(n, cur) == IF n = 1 THEN <<0, cur>> ELSE roundRobinSelect(n, cur)

\* ------------------------------------------------------------------------
\* ClusterManager.getConnection
\* ------------------------------------------------------------------------
_shouldUseReplica(operation, consistencyLevel) ==
  IF consistencyLevel = "strong" THEN FALSE
  ELSE IF operation = "write" THEN FALSE
  ELSE TRUE

ActiveClusters == SelectSeq(clusterOrder, LAMBDA c : clusterStatus[c] = "active")

\* ResolveTarget with the schema mapping consulted before the clusterId
ResolveTarget_SchemaFirst(o) ==
  IF o.schema # None /\ schemaClusterMap[o.schema] # None
  THEN [cluster |-> schemaClusterMap[o.schema], err |-> None, by |-> "schema"]
  ELSE IF o.clusterId # None
       THEN [cluster |-> o.clusterId, err |-> None, by |-> "clusterId"]
       ELSE IF o.schema # None
            THEN [cluster |-> None, err |-> "unknown_schema", by |-> "schema"]
            ELSE IF ActiveClusters = <<>>
                 THEN [cluster |-> None, err |-> "no_active_cluster",
                       by |-> "default"]
                 ELSE [cluster |-> ActiveClusters[1], err |-> None,
                       by |-> "default"]

\* the target cluster, or the error raised while resolving it
ResolveTarget(o) ==
  IF o.clusterId # None
  THEN [cluster |-> o.clusterId, err |-> None, by |-> "clusterId"]
  ELSE IF o.schema # None
       THEN IF schemaClusterMap[o.schema] = None
            THEN [cluster |-> None, err |-> "unknown_schema", by |-> "schema"]
            ELSE [cluster |-> schemaClusterMap[o.schema], err |-> None,
                  by |-> "schema"]
       ELSE IF ActiveClusters = <<>>
            THEN [cluster |-> None, err |-> "no_active_cluster", by |-> "default"]
            ELSE [cluster |-> ActiveClusters[1], err |-> None, by |-> "default"]

Failed(op, o, e, c) ==
  [NoRet EXCEPT !.op = op, !.req = o, !.outcome = "error", !.err = e,
                !.cluster = c]

\* The connection handed out (or the error) for options o; `acquired` is the
\* outcome of pool.getConnection. Returns <<ret, currentIndex'>>.
GetConnectionResult(op, o, acquired) ==
  LET operation == IF o.operation = None THEN "read" ELSE o.operation
      consistencyLevel == IF o.consistencyLevel = None THEN "eventual"
                          ELSE o.consistencyLevel
      target == ResolveTarget(o)
      c == target.cluster
  IN IF ~isInitialized THEN <<Failed(op, o, "not_initialized", None), currentIndex>>
     ELSE IF target.err # None THEN <<Failed(op, o, target.err, None), currentIndex>>
     ELSE IF c \notin Registered
          THEN <<Failed(op, o, "cluster_not_found", c), currentIndex>>
     ELSE LET useReplica == _shouldUseReplica(operation, consistencyLevel)
              n == Len(replicaPools[c])
              sel == IF useReplica /\ n > 0 THEN selectReplica(n, currentIndex)
                     ELSE <<0, currentIndex>>
              slot == IF useReplica /\ n > 0 THEN "replica" ELSE "primary"
              pool == IF slot = "replica" THEN replicaPools[c][sel[1] + 1]
                      ELSE primaryPool[c]
          IN IF ~acquired
             THEN <<[Failed(op, o, "acquire_failed", c) EXCEPT
                       !.status = clusterStatus[c]], sel[2]>>
             ELSE <<[NoRet EXCEPT !.op = op, !.req = o, !.outcome = "ok",
                                  !.cluster = c,
                                  !.pool = pool, !.slot = slot, !.meta = c,
                                  !.by = target.by,
                                  !.status = clusterStatus[c]],
                    sel[2]>>

GetConnection(o, acquired) ==
  LET r == GetConnectionResult("getConnection", o, acquired)
  IN /\ connRet' = r[1]
     /\ currentIndex' = r[2]
     /\ UNCHANGED <<isInitialized, clusterOrder, clusterStatus, clusterSchemas,
                    primaryPool, replicaPools, schemaClusterMap, healthData,
                    hcInFlight, hcLog, coord>>
     /\ UNCHANGED <<txVars, migVars, libVars>>

\* ------------------------------------------------------------------------
\* MultiClusterPostgres.query
\* ------------------------------------------------------------------------
\* A statement text: its leading keyword, written in lower or upper case,
\* with or without leading white space.
Keywords == {"select", "with", "explain", "insert", "update", "delete",
             "merge", "vacuum"}

\* one text per keyword: pad is the leading white space, upper the case
SqlTexts ==
  {[kw |-> k, upper |-> k \in {"with", "insert", "delete", "vacuum"},
    pad |-> IF k \in {"explain", "update", "delete"} THEN 2 ELSE 0] :
     k \in Keywords}

\* sql.trim().toLowerCase(): white space and case are dropped, so the text
\* starts with its keyword in lower case
NormalizedLead(sql) == [sql EXCEPT !.pad = 0, !.upper = FALSE].kw

_detectOperation(sql) ==
  LET normalizedSql == NormalizedLead(sql)
  IN IF normalizedSql \in {"select", "with", "explain"} THEN "read"
     ELSE IF normalizedSql \in {"insert", "update", "delete", "merge"}
          THEN "write"
          ELSE "read"

\* ClusterManager.executeQuery: the options are passed on as the caller gave
\* them; `io` is what the driver does: the pool hands out no connection
\* ("no_connection"), or the statement fails ("statement_fails"), or "ok"
DriverOutcomes == {"ok", "no_connection", "statement_fails"}

ExecuteQueryResult(o, io) ==
  LET r == GetConnectionResult("query", o, io # "no_connection")
  IN IF r[1].outcome = "error" THEN r
     ELSE IF io = "ok" THEN r
     ELSE <<[r[1] EXCEPT !.outcome = "error", !.err = "statement_failed"], r[2]>>

Query(sql, o, io) ==
  LET operation == IF o.operation = None THEN _detectOperation(sql)
                   ELSE o.operation
      r == ExecuteQueryResult(o, io)
  IN /\ connRet' = [r[1] EXCEPT !.operation = operation, !.sql = sql]
     /\ currentIndex' = r[2]
     /\ UNCHANGED <<isInitialized, clusterOrder, clusterStatus, clusterSchemas,
                    primaryPool, replicaPools, schemaClusterMap, healthData,
                    hcInFlight, hcLog, coord>>
     /\ UNCHANGED <<txVars, migVars, libVars>>

\* ------------------------------------------------------------------------
\* Specifications of the routing layer
\* ------------------------------------------------------------------------
\* state after construction of the coordinator
NoCoord == [loaded |-> FALSE, schemas |-> EmptySchemaMap, ret |-> None]

\* state after construction of the HealthChecker
InitHC ==
  /\ hcInFlight = [c \in ClusterIds |-> {}]
  /\ hcLog = [c \in ClusterIds |-> <<>>]

\* state after construction of the ClusterManager
InitCM ==
  /\ isInitialized = FALSE
  /\ clusterOrder = <<>>
  /\ clusterStatus = [c \in ClusterIds |-> None]
  /\ clusterSchemas = [c \in ClusterIds |-> {}]
  /\ primaryPool = [c \in ClusterIds |-> None]
  /\ replicaPools = [c \in ClusterIds |-> <<>>]
  /\ schemaClusterMap = EmptySchemaMap
  /\ healthData = [c \in ClusterIds |-> HealthAbsent]
  /\ currentIndex = 0
  /\ connRet = NoRet
  /\ InitHC
  /\ coord = NoCoord

\* the caller takes the result of its call
Return ==
  /\ connRet # NoRet
  /\ connRet' = NoRet
  /\ UNCHANGED <<isInitialized, clusterOrder, clusterStatus, clusterSchemas,
                 primaryPool, replicaPools, schemaClusterMap, healthData,
                 currentIndex, hcInFlight, hcLog, coord>>
  /\ UNCHANGED <<txVars, migVars, libVars>>

\* no replica list has been given to a LoadBalancer yet
NoList == [n |-> 0, start |-> 0]

InitLB ==
  /\ lbList = NoList
  /\ lbLog = <<>>

\* ------------------------------------------------------------------------
\* MemoryCache
\* ------------------------------------------------------------------------
CacheKeys == {"k1", "k2", "k3"}

CacheValues == {"v1", "v2"}

Strategies == {"lru", "lfu", "fifo"}

\* CacheEntry (types/index.ts); ttl is the absolute expiry. The fields size
\* and cluster are left out. The entry of a key that is not in the map is
\* NoEntry and is never read.
NoEntry == [value |-> None, ttl |-> 0, createdAt |-> 0, accessCount |-> 0,
            lastAccessed |-> 0, tags |-> {}, schema |-> None]

\* what a call returned: for get the value and, on a hit, the expiry of the
\* entry and the clock at the time; for an invalidation the count; evicted is
\* the key of the eviction event that get or set emitted
NoCacheRet == [op |-> None, key |-> None, hit |-> FALSE, value |-> None,
               expiry |-> 0, at |-> 0, count |-> 0, evicted |-> None]

\* state after construction of a MemoryCache with the default configuration
\* (lru, no compression: set stores the value it is given), scaled down
InitCache ==
  /\ cacheCfg = [maxSize |-> MaxCacheSize, strategy |-> "lru"]
  /\ cacheKeys = <<>>
  /\ cache = [k \in CacheKeys |-> NoEntry]
  /\ now = 0
  /\ cacheRet = NoCacheRet

\* ------------------------------------------------------------------------
\* ConnectionPool
\* ------------------------------------------------------------------------
\* callers of getConnection on one pool
Callers == {"a1", "a2"}

\* a caller that is not in a call; afterClose tells whether close had been
\* called when the caller's last call began
NoCall == [pc |-> "idle", result |-> None, afterClose |-> FALSE]

\* state after construction of a ConnectionPool: the constructor has created
\* the driver's pool and started _initialize, which awaits testConnection
InitPool ==
  /\ cpool = [isReady |-> FALSE, isClosed |-> FALSE, init |-> "testing",
              ended |-> FALSE]
  /\ acq = [a \in Callers |-> NoCall]

\* ------------------------------------------------------------------------
\* MigrationManager.migrate with parallel: true
\* ------------------------------------------------------------------------
\* a pending item: the migration of a version for a schema (and the cluster
\* of the schema); the items of one schema are one lane
Items == Schemas \X Versions

\* no parallel migrate is running and no _executeMigration is in flight
NoPar == [active |-> FALSE, maxParallel |-> 0, continueOnError |-> FALSE,
          batches |-> <<>>, st |-> [i \in Items |-> "none"]]

InitPar == par = NoPar

\* no updateConfig is running
NoReload == [active |-> FALSE, todo |-> <<>>]

InitUpd == reload = NoReload

\* ClusterManager.stats and the pool metrics after construction
NoStats == [totalQueries |-> 0, failedQueries |-> 0, activeConnections |-> 0]

NoConns == [acquired |-> 0, released |-> 0]

InitStats == stats = NoStats /\ conns = NoConns

\* DistributedTransaction.metrics after construction; avgDuration is kept as
\* the fraction num / den
NoTxm == [active |-> 0, committed |-> 0, aborted |-> 0,
          avgDuration |-> [num |-> 0, den |-> 1], durations |-> <<>>]

InitDur == txm = NoTxm

\* a lock table without rows, every runner outside _executeMigration
NoRow == [owner |-> None, expired |-> FALSE]

NoStep == [at |-> "idle", version |-> 0, took |-> FALSE]

InitLk == lk = [rows |-> [v \in Versions |-> NoRow],
                pc |-> [r \in Runners |-> NoStep]]

\* no read has been routed; the readiness of the pools is not followed
InitRr ==
  /\ rrLog = [c \in ClusterIds |-> <<>>]
  /\ poolReady = {}

\* the keys and values of the wrapped cache
FbKeys == {"k1", "k2"}

FbValues == {"v1", "v2"}

NoStore == [k \in FbKeys |-> None]

\* createProviderWithFallback has created and initialized the primary
\* (redis) provider and wrapped it: the primary is connected and empty, and
\* no fallback provider has been created
InitFb ==
  fb = [primary |-> "healthy", fallback |-> "none", pstore |-> NoStore,
        fstore |-> NoStore, last |-> NoStore,
        ret |-> [key |-> None, value |-> None]]

\* state after construction of the components used on their own
InitLib == InitLB /\ InitCache /\ InitPool /\ InitPar /\ InitUpd /\ InitStats /\ InitFb /\ InitDur /\ InitLk /\ InitRr

\* state after construction of the DistributedTransaction manager
InitTM ==
  /\ nextTx = 0
  /\ txState = [t \in TxIds |-> None]
  /\ txClusters = [t \in TxIds |-> {}]
  /\ txConns = [t \in TxIds |-> {}]
  /\ activeTransactions = {}
  /\ sent = [t \in TxIds |-> [c \in ClusterIds |-> <<>>]]
  /\ pending = [t \in TxIds |-> {}]
  /\ batchFail = [t \in TxIds |-> {}]
  /\ prepOk = [t \in TxIds |-> {}]
  /\ cpOk = [t \in TxIds |-> {}]
  /\ pc = [t \in TxIds |-> "idle"]
  /\ txRet = [t \in TxIds |-> [begin |-> None, commit |-> None, rollback |-> None,
                                notFound |-> FALSE, execute |-> None]]
  /\ txEvents = [t \in TxIds |-> [transactionStarted |-> 0,
                                   transactionCommitted |-> 0,
                                   transactionAborted |-> 0]]
  /\ metrics = [total |-> 0, active |-> 0, committed |-> 0, aborted |-> 0,
                distributed |-> 0]
  /\ borrowed = {}
  /\ rbPc = [t \in TxIds |-> "idle"]
  /\ rbPending = [t \in TxIds |-> {}]
  /\ closer = [pc |-> "open", ids |-> <<>>, refused |-> FALSE]
  /\ txDeadline = [t \in TxIds |-> None]
  /\ wtPc = [t \in TxIds |-> None]

LockKeys == {"up", "rollback"} \X Versions

\* a row of the lock table is absent, or present and expired or not;
\* locked_by is written and never read
NoLock == "absent"

NoMigRet == [op |-> None, outcome |-> None, after |-> {}, dryRun |-> FALSE]

\* what migrate / rollback returns or throws: the records it leaves and
\* whether it was a dry run
MigStatus(op, outcome, recs, dryRun) ==
  [op |-> op, outcome |-> outcome, after |-> recs, dryRun |-> dryRun]

NoRollback == [steps |-> 0, before |-> {}, downFailed |-> FALSE]

NoOpts == [force |-> FALSE, continueOnError |-> FALSE]

\* every runner constructed and initialized, nothing loaded, empty tables
InitMM ==
  /\ migrations = [v \in Versions |-> [loaded |-> FALSE, dependencies |-> {}]]
  /\ records = {}
  /\ lockRows = [k \in LockKeys |-> NoLock]
  /\ upCount = [v \in Versions |-> 0]
  /\ rpc = [r \in Runners |-> "idle"]
  /\ plan = [r \in Runners |-> <<>>]
  /\ ropts = [r \in Runners |-> NoOpts]
  /\ rbInfo = [r \in Runners |-> NoRollback]
  /\ migRet = [r \in Runners |-> NoMigRet]
  /\ mcalls = [callers |-> {}, rollback |-> FALSE]
  /\ tablesExist = FALSE

InitRoute == InitCM /\ InitTM /\ InitMM /\ InitLib

\* one step at a time: a call and the taking of its result, or a health
\* check; the caller initializes a manager in which nothing is registered yet
NextRoute ==
  \/ /\ connRet = NoRet
     /\ clusterOrder = <<>>
     /\ \E order \in OrderedSubsets(ClusterIds) :
          \E cfg \in [Range(order) -> ClusterConfigs], reg \in 0..Len(order) :
             Initialize(order, cfg, reg)
  \/ /\ connRet = NoRet
     /\ \E c \in ClusterIds, healthy \in BOOLEAN : CheckClusterHealth(c, healthy)
  \/ /\ connRet = NoRet
     /\ \E o \in QueryOptions, acquired \in BOOLEAN : GetConnection(o, acquired)
  \/ Return

SpecRoute == InitRoute /\ [][NextRoute]_vars

\* state after a successful initialize of a configuration in which every
\* cluster lists its own schema
DefaultOrder == <<"A", "B">>

OwnSchema == [c \in ClusterIds |-> IF c = "A" THEN "users" ELSE "orders"]

InitQuery ==
  \E n \in [ClusterIds -> 0..MaxReplicas], probe \in [ClusterIds -> BOOLEAN] :
    /\ isInitialized = TRUE
    /\ clusterOrder = DefaultOrder
    /\ clusterStatus = [c \in ClusterIds |-> IF probe[c] THEN "active" ELSE "down"]
    /\ clusterSchemas = [c \in ClusterIds |-> {OwnSchema[c]}]
    /\ primaryPool = [c \in ClusterIds |-> PoolId(c, "primary", 0)]
    /\ replicaPools = [c \in ClusterIds |-> ReplicaPoolsOf(c, n[c])]
    /\ schemaClusterMap = [s \in Schemas \cup {Ghost} |->
                             IF s = "users" THEN "A"
                             ELSE IF s = "orders" THEN "B" ELSE None]
    /\ healthData = [c \in ClusterIds |-> IF probe[c] THEN "healthy" ELSE "unhealthy"]
    /\ currentIndex = 0
    /\ connRet = NoRet
    /\ InitHC
    /\ coord = NoCoord
    /\ InitTM
    /\ InitLib
    /\ InitMM

NextQuery ==
  \/ /\ connRet = NoRet
     /\ \E c \in ClusterIds, healthy \in BOOLEAN : CheckClusterHealth(c, healthy)
  \/ /\ connRet = NoRet
     /\ \E sql \in SqlTexts, o \in QueryOptions, io \in DriverOutcomes :
          Query(sql, o, io)
  \/ Return

SpecQuery == InitQuery /\ [][NextQuery]_vars

\* state after ClusterManager.initialize of two clusters without replicas:
\* healthChecker.start has recorded every cluster as healthy
InitHealth ==
  /\ isInitialized = TRUE
  /\ clusterOrder = DefaultOrder
  /\ clusterStatus = [c \in ClusterIds |-> "active"]
  /\ clusterSchemas = [c \in ClusterIds |-> {OwnSchema[c]}]
  /\ primaryPool = [c \in ClusterIds |-> PoolId(c, "primary", 0)]
  /\ replicaPools = [c \in ClusterIds |-> <<>>]
  /\ schemaClusterMap = [s \in Schemas \cup {Ghost} |->
                           IF s = "users" THEN "A"
                           ELSE IF s = "orders" THEN "B" ELSE None]
  /\ healthData = [c \in ClusterIds |-> "healthy"]
  /\ currentIndex = 0
  /\ connRet = NoRet
  /\ InitHC
  /\ coord = NoCoord
  /\ InitTM
  /\ InitLib
  /\ InitMM

\* periodic and forced checks of the clusters of an initialized manager
NextHealth ==
  \/ \E c \in ClusterIds, kind \in CheckKinds : HcStart(c, kind)
  \/ \E c \in ClusterIds, kind \in CheckKinds, healthy \in BOOLEAN :
       HcComplete(c, kind, healthy)

SpecHealth == InitHealth /\ [][NextHealth]_vars

\* ------------------------------------------------------------------------
\* DistributedTransaction
\* ------------------------------------------------------------------------
\* the first registered cluster whose configuration lists the schema
getClusterForSchema(schema) ==
  LET idx == {i \in 1..Len(clusterOrder) :
                schema \in clusterSchemas[clusterOrder[i]]}
  IN IF idx = {} THEN None
     ELSE clusterOrder[CHOOSE i \in idx : \A j \in idx : i <= j]

\* connection.query(stmt) issued on the connections of transaction t to cs
SendTo(log, t, cs, stmt) ==
  [log EXCEPT ![t] = [c \in ClusterIds |->
                        IF c \in cs THEN Append(log[t][c], stmt) ELSE log[t][c]]]

\* the request begin makes for the connection of a participant
WriteOn(c) ==
  [schema |-> None, clusterId |-> c, operation |-> "write",
   consistencyLevel |-> None]

\* connection.release() on every connection, then connections.clear()
releaseConnections(t) ==
  /\ borrowed' = borrowed \ {<<t, c>> : c \in txConns[t]}
  /\ txConns' = [txConns EXCEPT ![t] = {}]

\* begin(schemas): the participants are visited in the order given; failAt = 0
\* when every participant hands out a connection and accepts BEGIN, otherwise
\* the position of the participant at which getConnection (kind "acquire") or
\* BEGIN (kind "begin") fails
BeginTx(schemas, order, failAt, kind) ==
  LET t == nextTx + 1
      clusters == {getClusterForSchema(s) : s \in schemas} \ {None}
      started == IF failAt = 0 THEN clusters
                 ELSE {order[i] : i \in 1..(failAt - 1)}
      begun == IF failAt # 0 /\ kind = "begin"
               THEN started \cup {order[failAt]} ELSE started
  IN /\ nextTx < MaxTx
     /\ Range(order) = clusters
     /\ Len(order) = Cardinality(clusters)
     /\ failAt \in 0..Len(order)
     /\ failAt = 0 => kind = "acquire"
     /\ \A c \in begun :
          GetConnectionResult("getConnection", WriteOn(c), TRUE)[1].outcome = "ok"
     /\ nextTx' = t
     /\ txClusters' = [txClusters EXCEPT ![t] = clusters]
     /\ txConns' = [txConns EXCEPT ![t] = started]
     /\ borrowed' = borrowed \cup {<<t, c>> : c \in begun}
     /\ sent' = IF failAt = 0 THEN SendTo(sent, t, begun, "BEGIN")
                ELSE SendTo(SendTo(sent, t, begun, "BEGIN"), t, started, "ROLLBACK")
     /\ IF failAt = 0
        THEN /\ txState' = [txState EXCEPT ![t] = "prepared"]
             /\ activeTransactions' = activeTransactions \cup {t}
             /\ metrics' = [metrics EXCEPT
                   !.total = @ + 1, !.active = @ + 1,
                   !.distributed = IF Cardinality(clusters) > 1 THEN @ + 1 ELSE @]
             /\ txEvents' = [txEvents EXCEPT ![t].transactionStarted = @ + 1]
             /\ txRet' = [txRet EXCEPT ![t].begin = "ok"]
        ELSE /\ txState' = [txState EXCEPT ![t] = "preparing"]
             /\ txRet' = [txRet EXCEPT ![t].begin = "error"]
             /\ UNCHANGED <<activeTransactions, metrics, txEvents>>
     /\ UNCHANGED <<pending, batchFail, prepOk, cpOk, pc>>
     /\ UNCHANGED <<cmVars, migVars, libVars>>

\* begin(schemas) called without options
Begin(schemas, order, failAt, kind) ==
  /\ BeginTx(schemas, order, failAt, kind)
  /\ UNCHANGED callVars

\* the catch block of commit up to the await of rollbackConnections
CommitCatch(t) ==
  /\ txState' = [txState EXCEPT ![t] = "aborted"]
  /\ sent' = SendTo(sent, t, txConns[t], "ROLLBACK")
  /\ pending' = [pending EXCEPT ![t] = txConns[t]]
  /\ batchFail' = [batchFail EXCEPT ![t] = {}]
  /\ pc' = [pc EXCEPT ![t] = "c_rollback"]

\* commit(transactionId) up to its first await
CommitStart(t) ==
  /\ pc[t] = "idle"
  /\ IF t \notin activeTransactions
     THEN /\ txRet' = [txRet EXCEPT ![t].notFound = TRUE]
          /\ UNCHANGED <<txState, sent, pending, batchFail, pc>>
     ELSE IF Cardinality(txClusters[t]) > 1
     THEN \* twoPhaseCommit, phase 1
          /\ txState' = [txState EXCEPT ![t] = "committing"]
          /\ sent' = SendTo(sent, t, txConns[t], "PREPARE")
          /\ pending' = [pending EXCEPT ![t] = txConns[t]]
          /\ batchFail' = [batchFail EXCEPT ![t] = {}]
          /\ pc' = [pc EXCEPT ![t] = "c_prepare"]
          /\ UNCHANGED txRet
     ELSE IF txConns[t] # {}
     THEN \* singleClusterCommit
          /\ txState' = [txState EXCEPT ![t] = "committing"]
          /\ sent' = SendTo(sent, t, txConns[t], "COMMIT")
          /\ pending' = [pending EXCEPT ![t] = txConns[t]]
          /\ batchFail' = [batchFail EXCEPT ![t] = {}]
          /\ pc' = [pc EXCEPT ![t] = "c_single"]
          /\ UNCHANGED txRet
     ELSE \* singleClusterCommit without a connection: query of undefined
          /\ CommitCatch(t)
          /\ UNCHANGED txRet
  /\ UNCHANGED <<nextTx, txClusters, txConns, activeTransactions, prepOk, cpOk,
                 txEvents, metrics, borrowed>>
  /\ UNCHANGED <<cmVars, migVars, libVars>>

\* commit(transactionId) called by the owner of the transaction
CommitCall(t) ==
  /\ CommitStart(t)
  /\ UNCHANGED callVars

\* the server's answer to a statement of the awaited batch
Reply(t, c, ok) ==
  /\ c \in pending[t]
  /\ pending' = [pending EXCEPT ![t] = @ \ {c}]
  /\ batchFail' = [batchFail EXCEPT ![t] = IF ok THEN @ ELSE @ \cup {c}]
  /\ prepOk' = [prepOk EXCEPT ![t] =
                  IF ok /\ pc[t] = "c_prepare" THEN @ \cup {c} ELSE @]
  /\ cpOk' = [cpOk EXCEPT ![t] =
                IF ok /\ pc[t] = "c_commit_prepared" THEN @ \cup {c} ELSE @]
  /\ UNCHANGED <<nextTx, txState, txClusters, txConns, activeTransactions, sent,
                 pc, txRet, txEvents, metrics, borrowed>>
  /\ UNCHANGED <<cmVars, migVars, libVars, callVars>>

\* the finally block of commit and rollback
Finish(t) ==
  /\ releaseConnections(t)
  /\ activeTransactions' = activeTransactions \ {t}

\* a variant of twoPhaseCommit that enters phase 2 whatever phase 1 answered
PrepareDone_IgnoreFailures(t) ==
  /\ pc[t] = "c_prepare"
  /\ pending[t] = {}
  /\ sent' = SendTo(sent, t, txConns[t], "COMMIT_PREPARED")
  /\ pending' = [pending EXCEPT ![t] = txConns[t]]
  /\ pc' = [pc EXCEPT ![t] = "c_commit_prepared"]
  /\ batchFail' = [batchFail EXCEPT ![t] = {}]
  /\ UNCHANGED <<nextTx, txState, txClusters, txConns, activeTransactions,
                 prepOk, cpOk, txRet, txEvents, metrics, borrowed>>
  /\ UNCHANGED <<cmVars, migVars, libVars, callVars>>

\* twoPhaseCommit after Promise.all of the PREPARE statements: phase 2 when
\* none failed, abortPreparedTransactions otherwise
PrepareDone(t) ==
  /\ pc[t] = "c_prepare"
  /\ pending[t] = {}
  /\ IF batchFail[t] = {}
     THEN /\ sent' = SendTo(sent, t, txConns[t], "COMMIT_PREPARED")
          /\ pending' = [pending EXCEPT ![t] = txConns[t]]
          /\ pc' = [pc EXCEPT ![t] = "c_commit_prepared"]
     ELSE /\ sent' = SendTo(sent, t, prepOk[t] \cap txConns[t], "ROLLBACK_PREPARED")
          /\ pending' = [pending EXCEPT ![t] = prepOk[t] \cap txConns[t]]
          /\ pc' = [pc EXCEPT ![t] = "c_abort_prepared"]
  /\ batchFail' = [batchFail EXCEPT ![t] = {}]
  /\ UNCHANGED <<nextTx, txState, txClusters, txConns, activeTransactions,
                 prepOk, cpOk, txRet, txEvents, metrics, borrowed>>
  /\ UNCHANGED <<cmVars, migVars, libVars, callVars>>

\* a variant of the catch block that sends no ROLLBACK
AbortPreparedDone_NoRollback(t) ==
  /\ pc[t] = "c_abort_prepared"
  /\ pending[t] = {}
  /\ txState' = [txState EXCEPT ![t] = "aborted"]
  /\ pending' = [pending EXCEPT ![t] = {}]
  /\ batchFail' = [batchFail EXCEPT ![t] = {}]
  /\ pc' = [pc EXCEPT ![t] = "c_rollback"]
  /\ UNCHANGED <<nextTx, txClusters, txConns, activeTransactions, prepOk, cpOk,
                 txRet, txEvents, metrics, borrowed, sent>>
  /\ UNCHANGED <<cmVars, migVars, libVars, callVars>>

\* abortPreparedTransactions is over: twoPhaseCommit throws and commit
\* catches
AbortPreparedDone(t) ==
  /\ pc[t] = "c_abort_prepared"
  /\ pending[t] = {}
  /\ CommitCatch(t)
  /\ UNCHANGED <<nextTx, txClusters, txConns, activeTransactions, prepOk, cpOk,
                 txRet, txEvents, metrics, borrowed>>
  /\ UNCHANGED <<cmVars, migVars, libVars, callVars>>

\* the try block of commit after twoPhaseCommit or singleClusterCommit
\* returned, and the finally block
CommitSucceeds(t) ==
  /\ txState' = [txState EXCEPT ![t] = "committed"]
  /\ metrics' = [metrics EXCEPT !.active = @ - 1, !.committed = @ + 1]
  /\ txEvents' = [txEvents EXCEPT ![t].transactionCommitted = @ + 1]
  /\ txRet' = [txRet EXCEPT ![t].commit = "ok"]
  /\ Finish(t)
  /\ pc' = [pc EXCEPT ![t] = "idle"]
  /\ UNCHANGED <<sent, pending, batchFail>>

\* twoPhaseCommit after Promise.all of the COMMIT PREPARED statements: a
\* failed statement is logged and twoPhaseCommit returns
CommitPreparedDone(t) ==
  /\ pc[t] = "c_commit_prepared"
  /\ pending[t] = {}
  /\ CommitSucceeds(t)
  /\ UNCHANGED <<nextTx, txClusters, prepOk, cpOk>>
  /\ UNCHANGED <<cmVars, migVars, libVars, callVars>>

\* singleClusterCommit after its COMMIT was answered
SingleDone(t) ==
  /\ pc[t] = "c_single"
  /\ pending[t] = {}
  /\ IF batchFail[t] = {}
     THEN CommitSucceeds(t)
     ELSE /\ CommitCatch(t)
          /\ UNCHANGED <<txConns, activeTransactions, txRet, txEvents, metrics,
                         borrowed>>
  /\ UNCHANGED <<nextTx, txClusters, prepOk, cpOk>>
  /\ UNCHANGED <<cmVars, migVars, libVars, callVars>>

\* the catch block of commit after rollbackConnections, and the finally block
CommitCatchDone(t) ==
  /\ pc[t] = "c_rollback"
  /\ pending[t] = {}
  /\ metrics' = [metrics EXCEPT !.active = @ - 1, !.aborted = @ + 1]
  /\ txEvents' = [txEvents EXCEPT ![t].transactionAborted = @ + 1]
  /\ txRet' = [txRet EXCEPT ![t].commit = "error"]
  /\ Finish(t)
  /\ pc' = [pc EXCEPT ![t] = "idle"]
  /\ UNCHANGED <<nextTx, txState, txClusters, sent, pending, batchFail, prepOk,
                 cpOk>>
  /\ UNCHANGED <<cmVars, migVars, libVars, callVars>>

\* rollback(transactionId) up to the await of rollbackConnections
RollbackStart(t) ==
  /\ rbPc[t] = "idle"
  /\ IF t \notin activeTransactions
     THEN /\ txRet' = [txRet EXCEPT ![t].notFound = TRUE]
          /\ UNCHANGED <<txState, sent, rbPending, rbPc>>
     ELSE /\ txState' = [txState EXCEPT ![t] = "aborting"]
          /\ sent' = SendTo(sent, t, txConns[t], "ROLLBACK")
          /\ rbPending' = [rbPending EXCEPT ![t] = txConns[t]]
          /\ rbPc' = [rbPc EXCEPT ![t] = "r_rollback"]
          /\ UNCHANGED txRet
  /\ UNCHANGED <<nextTx, txClusters, txConns, activeTransactions, pending,
                 batchFail, prepOk, cpOk, pc, txEvents, metrics, borrowed>>
  /\ UNCHANGED <<cmVars, migVars, libVars>>

\* rollback(transactionId) called by the owner of the transaction
RollbackCall(t) ==
  /\ RollbackStart(t)
  /\ UNCHANGED <<closer, txDeadline, wtPc>>

\* the server's answer to a ROLLBACK of rollbackConnections: a failure is
\* caught and logged
RollbackReply(t, c, ok) ==
  /\ c \in rbPending[t]
  /\ rbPending' = [rbPending EXCEPT ![t] = @ \ {c}]
  /\ UNCHANGED <<nextTx, txState, txClusters, txConns, activeTransactions, sent,
                 pending, batchFail, prepOk, cpOk, pc, txRet, txEvents, metrics,
                 borrowed, rbPc, closer, txDeadline, wtPc>>
  /\ UNCHANGED <<cmVars, migVars, libVars>>

\* rollback after rollbackConnections, and the finally block
RollbackDone(t) ==
  /\ rbPc[t] = "r_rollback"
  /\ rbPending[t] = {}
  /\ txState' = [txState EXCEPT ![t] = "aborted"]
  /\ metrics' = [metrics EXCEPT !.active = @ - 1, !.aborted = @ + 1]
  /\ txEvents' = [txEvents EXCEPT ![t].transactionAborted = @ + 1]
  /\ txRet' = [txRet EXCEPT ![t].rollback = "ok"]
  /\ Finish(t)
  /\ rbPc' = [rbPc EXCEPT ![t] = "idle"]
  /\ UNCHANGED <<nextTx, txClusters, sent, pending, batchFail, prepOk, cpOk, pc,
                 rbPending, closer, txDeadline, wtPc>>
  /\ UNCHANGED <<cmVars, migVars, libVars>>

\* the statements a caller hands to execute, told apart by their position in
\* the caller's sequence
ExecNames == <<"EXEC1", "EXEC2", "EXEC3">>

\* statements execute has sent for transaction t
ExecCount(t) ==
  Cardinality({e \in Range(ExecNames) :
                 \E c \in ClusterIds : e \in Range(sent[t][c])})

\* the operation argument of execute
ExecRequests ==
  [schema : {None} \cup Schemas \cup {Ghost},
   clusterId : {None} \cup ClusterIds]

\* execute: the target cluster of an operation
ExecTarget(o) ==
  IF o.clusterId # None THEN o.clusterId
  ELSE IF o.schema # None THEN getClusterForSchema(o.schema)
  ELSE None

\* a variant of execute that sends the statement whether or not the
\* transaction holds a connection for the target cluster
Execute_AnyCluster(t, o) ==
  LET target == ExecTarget(o)
  IN /\ t \in 1..nextTx
     /\ IF \/ t \notin activeTransactions
           \/ txState[t] # "prepared"
           \/ target = None
        THEN /\ txRet' = [txRet EXCEPT ![t].execute = "rejected"]
             /\ UNCHANGED sent
        ELSE /\ ExecCount(t) < MaxExec
             /\ sent' = SendTo(sent, t, {target}, ExecNames[ExecCount(t) + 1])
             /\ \E ok \in BOOLEAN :
                  txRet' = [txRet EXCEPT ![t].execute =
                              IF ok THEN "ok" ELSE "failed"]
     /\ UNCHANGED <<nextTx, txState, txClusters, txConns, activeTransactions,
                    pending, batchFail, prepOk, cpOk, pc, txEvents, metrics,
                    borrowed>>
     /\ UNCHANGED <<cmVars, migVars, libVars, callVars>>

\* execute(transactionId, operation); the server accepts the statement (ok) or
\* fails it
Execute(t, o) ==
  LET target == ExecTarget(o)
  IN /\ t \in 1..nextTx
     /\ IF \/ t \notin activeTransactions
           \/ txState[t] # "prepared"
           \/ target = None
           \/ target \notin txConns[t]
        THEN /\ txRet' = [txRet EXCEPT ![t].execute = "rejected"]
             /\ UNCHANGED sent
        ELSE /\ ExecCount(t) < MaxExec
             /\ sent' = SendTo(sent, t, {target}, ExecNames[ExecCount(t) + 1])
             /\ \E ok \in BOOLEAN :
                  txRet' = [txRet EXCEPT ![t].execute =
                              IF ok THEN "ok" ELSE "failed"]
     /\ UNCHANGED <<nextTx, txState, txClusters, txConns, activeTransactions,
                    pending, batchFail, prepOk, cpOk, pc, txEvents, metrics,
                    borrowed>>
     /\ UNCHANGED <<cmVars, migVars, libVars, callVars>>

\* withTransaction(schemas, callback) up to the call of the callback; an
\* error of beginTransaction leaves withTransaction before its try block
WtBegin(schemas, order, failAt, kind) ==
  /\ BeginTx(schemas, order, failAt, kind)
  /\ wtPc' = [wtPc EXCEPT ![nextTx + 1] =
                IF failAt = 0 THEN "callback" ELSE "raised_original"]
  /\ UNCHANGED <<rbPc, rbPending, closer, txDeadline>>

\* the callback returns (ok) and commitTransaction is called, or it throws
\* and the catch block calls rollbackTransaction
WtCallbackDone(t, ok) ==
  /\ wtPc[t] = "callback"
  /\ IF ok
     THEN /\ CommitStart(t)
          /\ wtPc' = [wtPc EXCEPT ![t] = "commit"]
          /\ UNCHANGED <<rbPc, rbPending>>
     ELSE /\ RollbackStart(t)
          /\ wtPc' = [wtPc EXCEPT ![t] = "rollback"]
  /\ UNCHANGED <<closer, txDeadline>>

\* commitTransaction is over: withTransaction returns the callback's result,
\* or its catch block calls rollbackTransaction, whose own error leaves
\* withTransaction in place of the one caught
WtCommitDone(t) ==
  /\ wtPc[t] = "commit"
  /\ pc[t] = "idle"
  /\ IF txRet[t].commit = "ok"
     THEN /\ wtPc' = [wtPc EXCEPT ![t] = "returned"]
          /\ UNCHANGED <<nextTx, txState, txClusters, txConns,
                         activeTransactions, sent, pending, batchFail, prepOk,
                         cpOk, pc, txRet, txEvents, metrics, borrowed, rbPc,
                         rbPending>>
          /\ UNCHANGED <<cmVars, migVars, libVars>>
     ELSE /\ RollbackStart(t)
          /\ wtPc' = [wtPc EXCEPT ![t] =
                        IF t \in activeTransactions THEN "rollback"
                        ELSE "raised_other"]
  /\ UNCHANGED <<closer, txDeadline>>

\* rollbackTransaction is over: the catch block throws the error it caught
WtRollbackDone(t) ==
  /\ wtPc[t] = "rollback"
  /\ rbPc[t] = "idle"
  /\ wtPc' = [wtPc EXCEPT ![t] = "raised_original"]
  /\ UNCHANGED <<nextTx, txState, txClusters, txConns, activeTransactions, sent,
                 pending, batchFail, prepOk, cpOk, pc, txRet, txEvents, metrics,
                 borrowed, rbPc, rbPending, closer, txDeadline>>
  /\ UNCHANGED <<cmVars, migVars, libVars>>

\* MultiClusterPostgres._ensureInitialized
EnsureInitialized == closer.pc # "closed"

\* DistributedTransaction.close from one awaited rollback to the next, then
\* activeTransactions.clear(), ClusterManager.close and the end of
\* MultiClusterPostgres.close
CloseNext(ids) ==
  IF ids # <<>>
  THEN /\ RollbackStart(Head(ids))
       /\ closer' = [closer EXCEPT !.pc = "tx", !.ids = ids]
       /\ UNCHANGED <<txDeadline, wtPc>>
  ELSE /\ activeTransactions' = {}
       /\ isInitialized' = FALSE
       /\ clusterOrder' = <<>>
       /\ schemaClusterMap' = EmptySchemaMap
       /\ closer' = [closer EXCEPT !.pc = "closed", !.ids = <<>>]
       /\ UNCHANGED <<clusterStatus, clusterSchemas, primaryPool, replicaPools,
                      healthData, currentIndex, connRet, hcInFlight, hcLog, coord>>
       /\ UNCHANGED <<nextTx, txState, txClusters, txConns, sent, pending,
                      batchFail, prepOk, cpOk, pc, txRet, txEvents, metrics,
                      borrowed, rbPc, rbPending, txDeadline, wtPc>>
       /\ UNCHANGED <<migVars, libVars>>

\* MultiClusterPostgres.close up to its first await: the ids of the active
\* transactions are listed in the order they were begun
Close ==
  /\ closer.pc = "open"
  /\ CloseNext(SelectSeqIds([i \in 1..MaxTx |-> i], activeTransactions))

\* the rollback awaited by DistributedTransaction.close returned or threw
CloseRollbackDone ==
  /\ closer.pc = "tx"
  /\ rbPc[Head(closer.ids)] = "idle"
  /\ CloseNext(Tail(closer.ids))

\* a call of query, getConnection, beginTransaction, executeInTransaction,
\* commitTransaction, rollbackTransaction or registerSchema after close
CallAfterClose ==
  /\ ~EnsureInitialized
  /\ closer' = [closer EXCEPT !.refused = TRUE]
  /\ UNCHANGED <<nextTx, txState, txClusters, txConns, activeTransactions, sent,
                 pending, batchFail, prepOk, cpOk, pc, txRet, txEvents, metrics,
                 borrowed, rbPc, rbPending, txDeadline, wtPc>>
  /\ UNCHANGED <<cmVars, migVars, libVars>>

\* begin(schemas, {timeout}): the option is stored in the transaction
BeginWithTimeout(schemas, order, failAt, kind) ==
  /\ BeginTx(schemas, order, failAt, kind)
  /\ txDeadline' = [txDeadline EXCEPT ![nextTx + 1] = "running"]
  /\ UNCHANGED <<rbPc, rbPending, closer, wtPc>>

\* the time given in options.timeout has passed since begin
DeadlinePasses(t) ==
  /\ txDeadline[t] = "running"
  /\ txDeadline' = [txDeadline EXCEPT ![t] = "passed"]
  /\ UNCHANGED <<nextTx, txState, txClusters, txConns, activeTransactions, sent,
                 pending, batchFail, prepOk, cpOk, pc, txRet, txEvents, metrics,
                 borrowed, rbPc, rbPending, closer, wtPc>>
  /\ UNCHANGED <<cmVars, migVars, libVars>>

\* registerSchema(schema, clusterId): ClusterConfig.mapSchemaToCluster throws
\* for a cluster its configuration document does not hold, which is every
\* cluster when the configuration was handed to initialize as an argument;
\* otherwise it adds the schema to the schemas array of the cluster, the array
\* ClusterInfo.config.schemas refers to, and the coordinator notes the
\* mapping in its own schemas map
RegisterSchema(schema, clusterId) ==
  /\ EnsureInitialized
  /\ IF ~coord.loaded \/ clusterId \notin Registered
     THEN /\ coord' = [coord EXCEPT !.ret = "error"]
          /\ UNCHANGED clusterSchemas
     ELSE /\ clusterSchemas' = [clusterSchemas EXCEPT ![clusterId] = @ \cup {schema}]
          /\ coord' = [coord EXCEPT !.schemas[schema] = clusterId, !.ret = "ok"]
  /\ UNCHANGED <<isInitialized, clusterOrder, clusterStatus, primaryPool,
                 replicaPools, schemaClusterMap, healthData, currentIndex,
                 connRet, hcInFlight, hcLog>>
  /\ UNCHANGED <<txVars, migVars, libVars>>

\* the caller takes the result of registerSchema
RegisterReturn ==
  /\ coord.ret # None
  /\ coord' = [coord EXCEPT !.ret = None]
  /\ UNCHANGED <<isInitialized, clusterOrder, clusterStatus, clusterSchemas,
                 primaryPool, replicaPools, schemaClusterMap, healthData,
                 currentIndex, connRet, hcInFlight, hcLog>>
  /\ UNCHANGED <<txVars, migVars, libVars>>

\* state after a successful initialize of two clusters, each listing its own
\* schema, from the configuration file (loaded) or from an argument
InitRegister ==
  /\ isInitialized = TRUE
  /\ clusterOrder = DefaultOrder
  /\ clusterStatus = [c \in ClusterIds |-> "active"]
  /\ clusterSchemas = [c \in ClusterIds |-> {OwnSchema[c]}]
  /\ primaryPool = [c \in ClusterIds |-> PoolId(c, "primary", 0)]
  /\ replicaPools = [c \in ClusterIds |-> <<>>]
  /\ schemaClusterMap = [s \in Schemas \cup {Ghost} |->
                           IF s = "users" THEN "A"
                           ELSE IF s = "orders" THEN "B" ELSE None]
  /\ healthData = [c \in ClusterIds |-> "healthy"]
  /\ currentIndex = 0
  /\ connRet = NoRet
  /\ hcInFlight = [c \in ClusterIds |-> {}]
  /\ hcLog = [c \in ClusterIds |-> <<>>]
  /\ \E loaded \in BOOLEAN : coord = [NoCoord EXCEPT !.loaded = loaded]
  /\ InitTM
  /\ InitLib
  /\ InitMM

\* schemas are registered and connections are asked for, one call at a time
NextRegister ==
  \/ /\ connRet = NoRet /\ coord.ret = None
     /\ \E schema \in Schemas \cup {Ghost}, clusterId \in ClusterIds \cup {UnknownCluster} :
          RegisterSchema(schema, clusterId)
  \/ RegisterReturn
  \/ /\ connRet = NoRet /\ coord.ret = None
     /\ \E o \in QueryOptions, acquired \in BOOLEAN : GetConnection(o, acquired)
  \/ Return

SpecRegister == InitRegister /\ [][NextRegister]_vars

\* state after a successful initialize of two clusters without replicas, each
\* listing its own schema, and construction of the transaction manager
InitTx ==
  /\ isInitialized = TRUE
  /\ clusterOrder = DefaultOrder
  /\ clusterStatus = [c \in ClusterIds |-> "active"]
  /\ clusterSchemas = [c \in ClusterIds |-> {OwnSchema[c]}]
  /\ primaryPool = [c \in ClusterIds |-> PoolId(c, "primary", 0)]
  /\ replicaPools = [c \in ClusterIds |-> <<>>]
  /\ schemaClusterMap = [s \in Schemas \cup {Ghost} |->
                           IF s = "users" THEN "A"
                           ELSE IF s = "orders" THEN "B" ELSE None]
  /\ healthData = [c \in ClusterIds |-> "healthy"]
  /\ currentIndex = 0
  /\ connRet = NoRet
  /\ InitHC
  /\ coord = NoCoord
  /\ InitTM
  /\ InitLib
  /\ InitMM

\* each transaction is driven by one caller that awaits a call before making
\* the next one; different transactions interleave freely
NextTx ==
  \/ \E schemas \in SUBSET (Schemas \cup {Ghost}), order \in OrderedSubsets(ClusterIds),
        failAt \in 0..Cardinality(ClusterIds), kind \in {"acquire", "begin"} :
       Begin(schemas, order, failAt, kind)
  \/ \E t \in 1..nextTx : rbPc[t] = "idle" /\ CommitCall(t)
  \/ \E t \in 1..nextTx : pc[t] = "idle" /\ RollbackCall(t)
  \/ \E t \in TxIds, c \in ClusterIds, ok \in BOOLEAN : Reply(t, c, ok)
  \/ \E t \in TxIds, c \in ClusterIds, ok \in BOOLEAN : RollbackReply(t, c, ok)
  \/ \E t \in TxIds : PrepareDone(t)
  \/ \E t \in TxIds : AbortPreparedDone(t)
  \/ \E t \in TxIds : CommitPreparedDone(t)
  \/ \E t \in TxIds : SingleDone(t)
  \/ \E t \in TxIds : CommitCatchDone(t)
  \/ \E t \in TxIds : RollbackDone(t)

SpecTx == InitTx /\ [][NextTx]_vars

\* the calls on one transaction are made without waiting for one another:
\* commit, rollback and execute with the same id interleave at their awaits
NextTxRace ==
  \/ /\ nextTx = 0
     /\ \E schemas \in SUBSET (Schemas \cup {Ghost}),
           order \in OrderedSubsets(ClusterIds),
           failAt \in 0..Cardinality(ClusterIds), kind \in {"acquire", "begin"} :
          Begin(schemas, order, failAt, kind)
  \/ \E t \in 1..nextTx : CommitCall(t)
  \/ \E t \in 1..nextTx : RollbackCall(t)
  \/ \E t \in 1..nextTx, o \in ExecRequests : Execute(t, o)
  \/ \E t \in TxIds, c \in ClusterIds, ok \in BOOLEAN : Reply(t, c, ok)
  \/ \E t \in TxIds, c \in ClusterIds, ok \in BOOLEAN : RollbackReply(t, c, ok)
  \/ \E t \in TxIds : PrepareDone(t)
  \/ \E t \in TxIds : AbortPreparedDone(t)
  \/ \E t \in TxIds : CommitPreparedDone(t)
  \/ \E t \in TxIds : SingleDone(t)
  \/ \E t \in TxIds : CommitCatchDone(t)
  \/ \E t \in TxIds : RollbackDone(t)

SpecTxRace == InitTx /\ [][NextTxRace]_vars

\* every transaction is opened and ended by a withTransaction call; what the
\* callback sends in between has no part in how withTransaction ends
NextWith ==
  \/ \E schemas \in SUBSET (Schemas \cup {Ghost}), order \in OrderedSubsets(ClusterIds),
        failAt \in 0..Cardinality(ClusterIds), kind \in {"acquire", "begin"} :
       WtBegin(schemas, order, failAt, kind)
  \/ \E t \in 1..nextTx, ok \in BOOLEAN : WtCallbackDone(t, ok)
  \/ \E t \in 1..nextTx : WtCommitDone(t)
  \/ \E t \in 1..nextTx : WtRollbackDone(t)
  \/ \E t \in TxIds, c \in ClusterIds, ok \in BOOLEAN : Reply(t, c, ok)
  \/ \E t \in TxIds, c \in ClusterIds, ok \in BOOLEAN : RollbackReply(t, c, ok)
  \/ \E t \in TxIds : PrepareDone(t)
  \/ \E t \in TxIds : AbortPreparedDone(t)
  \/ \E t \in TxIds : CommitPreparedDone(t)
  \/ \E t \in TxIds : SingleDone(t)
  \/ \E t \in TxIds : CommitCatchDone(t)
  \/ \E t \in TxIds : RollbackDone(t)

SpecWith == InitTx /\ [][NextWith]_vars

\* the owners of the transactions go on calling while close is in progress;
\* once the coordinator is closed every call is refused; every begin succeeds
NextClose ==
  \/ /\ EnsureInitialized
     /\ \E schemas \in SUBSET (Schemas \cup {Ghost}),
           order \in OrderedSubsets(ClusterIds) :
          Begin(schemas, order, 0, "acquire")
  \/ \E t \in 1..nextTx :
       EnsureInitialized /\ rbPc[t] = "idle" /\ CommitCall(t)
  \/ \E t \in 1..nextTx :
       EnsureInitialized /\ pc[t] = "idle" /\ RollbackCall(t)
  \/ Close
  \/ CloseRollbackDone
  \/ CallAfterClose
  \/ \E t \in TxIds, c \in ClusterIds, ok \in BOOLEAN : Reply(t, c, ok)
  \/ \E t \in TxIds, c \in ClusterIds, ok \in BOOLEAN : RollbackReply(t, c, ok)
  \/ \E t \in TxIds : PrepareDone(t)
  \/ \E t \in TxIds : AbortPreparedDone(t)
  \/ \E t \in TxIds : CommitPreparedDone(t)
  \/ \E t \in TxIds : SingleDone(t)
  \/ \E t \in TxIds : CommitCatchDone(t)
  \/ \E t \in TxIds : RollbackDone(t)

SpecClose == InitTx /\ [][NextClose]_vars

\* transactions begun with a timeout whose owners make no further call: all
\* that is left to happen is that time passes
NextTimeout ==
  \/ \E schemas \in SUBSET (Schemas \cup {Ghost}),
        order \in OrderedSubsets(ClusterIds),
        failAt \in 0..Cardinality(ClusterIds), kind \in {"acquire", "begin"} :
       BeginWithTimeout(schemas, order, failAt, kind)
  \/ \E t \in TxIds : DeadlinePasses(t)

\* time goes on
SpecTimeout ==
  InitTx /\ [][NextTimeout]_vars /\ WF_vars(\E t \in TxIds : DeadlinePasses(t))

\* ------------------------------------------------------------------------
\* MigrationManager, for the migrations of schema "users" on its cluster
\* ------------------------------------------------------------------------
MigSchema == "users"

\* schemaClusterMap.get(schema) of the pgMultiverse instance
_getClusterForSchema(schema) == schemaClusterMap[schema]

Min(a, b) == IF a <= b THEN a ELSE b

RECURSIVE SortAsc(_)
\* sort((a, b) => a.version.localeCompare(b.version))
SortAsc(S) ==
  IF S = {} THEN <<>>
  ELSE LET m == CHOOSE x \in S : \A y \in S : x <= y
       IN <<m>> \o SortAsc(S \ {m})

RECURSIVE Reverse(_)
Reverse(q) == IF q = <<>> THEN <<>> ELSE Append(Reverse(Tail(q)), Head(q))

\* the rows _getAppliedMigrations returns: none when its SELECT fails
_getAppliedMigrations(selectOk) == IF selectOk THEN records ELSE {}

\* the loaded migrations that have no row among the applied ones, ascending
_getPendingMigrations(selectOk) ==
  SortAsc({v \in Versions : /\ migrations[v].loaded
                            /\ v \notin _getAppliedMigrations(selectOk)})

\* applied rows in descending order, the first `steps` of them
_getMigrationsToRollback(selectOk, steps) ==
  LET desc == Reverse(SortAsc(_getAppliedMigrations(selectOk)))
  IN SubSeq(desc, 1, Min(steps, Len(desc)))

\* SELECT COUNT(*) ... ; false when the query fails or when count === 0,
\* which a driver that hands the count out as text never satisfies
_isDependencyApplied(dep, queryOk, countNumeric) ==
  /\ queryOk
  /\ ~(countNumeric /\ dep \notin records)

\* no dependency of a pending migration is unknown, and each one is pending
\* too or applied
_validateDependencies(pendingMigrations, queryOk, countNumeric) ==
  \A v \in Range(pendingMigrations) : \A dep \in migrations[v].dependencies :
    /\ migrations[dep].loaded
    /\ \/ dep \in Range(pendingMigrations)
       \/ _isDependencyApplied(dep, queryOk, countNumeric)

\* INSERT ... ON CONFLICT (lock_key) DO UPDATE ... WHERE expires_at < NOW()
_acquireLock(rows, key) ==
  IF rows[key] \in {NoLock, "expired"}
  THEN [rows EXCEPT ![key] = "held"]
  ELSE rows

\* DELETE FROM lock table WHERE lock_key = key; a failure is only logged
_releaseLock(rows, key, relOk) ==
  IF relOk THEN [rows EXCEPT ![key] = NoLock] ELSE rows

\* the loop goes on with the next item, or the call returns its status
NextItem(r, op, stop, recs) ==
  IF stop \/ Len(plan[r]) <= 1
  THEN /\ plan' = [plan EXCEPT ![r] = <<>>]
       /\ rpc' = [rpc EXCEPT ![r] = "idle"]
       /\ ropts' = [ropts EXCEPT ![r] = NoOpts]
       /\ migRet' = [migRet EXCEPT ![r] =
                       MigStatus(op, "ok", recs, FALSE)]
  ELSE /\ plan' = [plan EXCEPT ![r] = Tail(@)]
       /\ rpc' = [rpc EXCEPT ![r] = IF op = "migrate" THEN "m_lock" ELSE "r_lock"]
       /\ UNCHANGED <<migRet, ropts>>

\* CREATE TABLE IF NOT EXISTS for the migrations table and the lock table
_createMigrationTables(exist, createOk) == exist \/ createOk

\* migrate(options) up to the first _executeMigration: the control tables
\* are created, the pending list is read, a dry run returns here
Migrate(r, dryRun, force, continueOnError, createOk, selectOk, queryOk, countNumeric) ==
  LET pendingMigrations == _getPendingMigrations(selectOk)
      Returns(outcome) ==
        /\ migRet' = [migRet EXCEPT ![r] =
                        MigStatus("migrate", outcome, records, dryRun)]
        /\ UNCHANGED <<plan, rpc, ropts>>
  IN /\ rpc[r] = "idle"
     /\ migRet[r] = NoMigRet
     /\ _getClusterForSchema(MigSchema) # None
     /\ ~createOk => ~selectOk
     /\ mcalls' = [mcalls EXCEPT !.callers = @ \cup {r}]
     /\ tablesExist' = _createMigrationTables(tablesExist, createOk)
     /\ IF ~createOk THEN Returns("error")
        ELSE IF dryRun THEN Returns("ok")
        ELSE IF ~force /\ ~_validateDependencies(pendingMigrations, queryOk, countNumeric)
        THEN Returns("error")
        ELSE IF pendingMigrations = <<>> THEN Returns("ok")
        ELSE /\ plan' = [plan EXCEPT ![r] = pendingMigrations]
             /\ rpc' = [rpc EXCEPT ![r] = "m_lock"]
             /\ ropts' = [ropts EXCEPT ![r] =
                    [force |-> force, continueOnError |-> continueOnError]]
             /\ UNCHANGED migRet
     /\ UNCHANGED <<migrations, records, lockRows, upCount, rbInfo>>
     /\ UNCHANGED <<cmVars, txVars, libVars>>

\* _executeMigration up to the call of up: the lock statement is sent and,
\* unless it fails, up starts whatever the statement changed
MigrateLock(r, lockOk, relOk) ==
  LET key == <<"up", Head(plan[r])>>
  IN /\ rpc[r] = "m_lock"
     /\ IF lockOk
        THEN /\ lockRows' = _acquireLock(lockRows, key)
             /\ rpc' = [rpc EXCEPT ![r] = "m_up"]
             /\ UNCHANGED <<plan, migRet, ropts>>
        ELSE /\ lockRows' = _releaseLock(lockRows, key, relOk)
             /\ NextItem(r, "migrate", ~ropts[r].continueOnError, records)
     /\ UNCHANGED <<migrations, records, upCount, rbInfo, mcalls, tablesExist>>
     /\ UNCHANGED <<cmVars, txVars, libVars>>

\* _executeMigration from the end of up: the row is inserted, the lock
\* released; any failure releases the lock and fails the migration
MigrateUp(r, upOk, insertOk, relOk) ==
  LET v == Head(plan[r])
      key == <<"up", v>>
      recorded == upOk /\ insertOk /\ v \notin records
      recs == IF recorded THEN records \cup {v} ELSE records
  IN /\ rpc[r] = "m_up"
     /\ upOk => upCount[v] < MaxUpRuns
     /\ upCount' = [upCount EXCEPT ![v] = IF upOk THEN @ + 1 ELSE @]
     /\ records' = recs
     /\ lockRows' = _releaseLock(lockRows, key, relOk)
     /\ NextItem(r, "migrate", ~recorded /\ ~ropts[r].continueOnError, recs)
     /\ UNCHANGED <<migrations, rbInfo, mcalls, tablesExist>>
     /\ UNCHANGED <<cmVars, txVars, libVars>>

\* rollback(options) without targetVersion up to the first
\* _rollbackMigration: the applied rows are read, a dry run returns here
Rollback(r, steps, dryRun, force, selectOk) ==
  LET todo == Reverse(_getMigrationsToRollback(selectOk, steps))
  IN /\ rpc[r] = "idle"
     /\ migRet[r] = NoMigRet
     /\ _getClusterForSchema(MigSchema) # None
     /\ selectOk => tablesExist
     /\ mcalls' = [callers |-> mcalls.callers \cup {r}, rollback |-> TRUE]
     /\ rbInfo' = [rbInfo EXCEPT ![r] =
                     [steps |-> steps, before |-> records, downFailed |-> FALSE]]
     /\ IF dryRun \/ todo = <<>>
        THEN /\ migRet' = [migRet EXCEPT ![r] =
                  MigStatus("rollback", "ok", records, dryRun)]
             /\ UNCHANGED <<plan, rpc, ropts>>
        ELSE /\ plan' = [plan EXCEPT ![r] = todo]
             /\ rpc' = [rpc EXCEPT ![r] = "r_lock"]
             /\ ropts' = [ropts EXCEPT ![r] =
                    [force |-> force, continueOnError |-> FALSE]]
             /\ UNCHANGED migRet
     /\ UNCHANGED <<migrations, records, lockRows, upCount, tablesExist>>
     /\ UNCHANGED <<cmVars, txVars, libVars>>

\* _rollbackMigration up to the call of down: a record without a loaded
\* migration fails, or is skipped under force; else as for MigrateLock
RollbackLock(r, lockOk, relOk) ==
  LET v == Head(plan[r])
      key == <<"rollback", v>>
  IN /\ rpc[r] = "r_lock"
     /\ IF ~migrations[v].loaded
        THEN /\ NextItem(r, "rollback", ~ropts[r].force, records)
             /\ UNCHANGED lockRows
        ELSE IF lockOk
        THEN /\ lockRows' = _acquireLock(lockRows, key)
             /\ rpc' = [rpc EXCEPT ![r] = "r_down"]
             /\ UNCHANGED <<plan, migRet, ropts>>
        ELSE /\ lockRows' = _releaseLock(lockRows, key, relOk)
             /\ NextItem(r, "rollback", ~ropts[r].force, records)
     /\ UNCHANGED <<migrations, records, upCount, rbInfo, mcalls, tablesExist>>
     /\ UNCHANGED <<cmVars, txVars, libVars>>

\* _rollbackMigration from the end of down: the row is deleted, the lock
\* released; any failure releases the lock and fails the rollback
RollbackDown(r, downOk, deleteOk, relOk) ==
  LET v == Head(plan[r])
      key == <<"rollback", v>>
      removed == downOk /\ deleteOk
      recs == IF removed THEN records \ {v} ELSE records
  IN /\ rpc[r] = "r_down"
     /\ records' = recs
     /\ rbInfo' = [rbInfo EXCEPT ![r].downFailed = @ \/ ~downOk]
     /\ lockRows' = _releaseLock(lockRows, key, relOk)
     /\ NextItem(r, "rollback", ~removed /\ ~ropts[r].force, recs)
     /\ UNCHANGED <<migrations, upCount, mcalls, tablesExist>>
     /\ UNCHANGED <<cmVars, txVars, libVars>>

\* the runner takes the status its call returned
MigReturn(r) ==
  /\ migRet[r] # NoMigRet
  /\ migRet' = [migRet EXCEPT ![r] = NoMigRet]
  /\ rbInfo' = [rbInfo EXCEPT ![r] = NoRollback]
  /\ UNCHANGED <<migrations, records, lockRows, upCount, rpc, plan, ropts, mcalls,
                 tablesExist>>
  /\ UNCHANGED <<cmVars, txVars, libVars>>

\* time passes beyond expires_at of a lock row
Expire(key) ==
  /\ lockRows[key] = "held"
  /\ lockRows' = [lockRows EXCEPT ![key] = "expired"]
  /\ UNCHANGED <<migrations, records, upCount, rpc, plan, ropts, rbInfo, migRet,
                 mcalls, tablesExist>>
  /\ UNCHANGED <<cmVars, txVars, libVars>>

\* one registered cluster that lists the schema; every runner has loaded the
\* same migration files, each depending on any of the other versions
InitMig ==
  /\ isInitialized = TRUE
  /\ clusterOrder = <<"A">>
  /\ clusterStatus = [c \in ClusterIds |-> IF c = "A" THEN "active" ELSE None]
  /\ clusterSchemas = [c \in ClusterIds |-> IF c = "A" THEN {MigSchema} ELSE {}]
  /\ primaryPool = [c \in ClusterIds |->
                      IF c = "A" THEN PoolId(c, "primary", 0) ELSE None]
  /\ replicaPools = [c \in ClusterIds |-> <<>>]
  /\ schemaClusterMap = [s \in Schemas \cup {Ghost} |->
                           IF s = MigSchema THEN "A" ELSE None]
  /\ healthData = [c \in ClusterIds |-> IF c = "A" THEN "healthy" ELSE HealthAbsent]
  /\ currentIndex = 0
  /\ connRet = NoRet
  /\ InitHC
  /\ coord = NoCoord
  /\ InitTM
  /\ InitLib
  /\ \E loaded \in SUBSET Versions :
       \E deps \in [loaded -> SUBSET Versions] :
         /\ \A v \in loaded : v \notin deps[v]
         /\ migrations = [v \in Versions |->
              IF v \in loaded THEN [loaded |-> TRUE, dependencies |-> deps[v]]
              ELSE [loaded |-> FALSE, dependencies |-> {}]]
  /\ records = {}
  /\ lockRows = [k \in LockKeys |-> NoLock]
  /\ upCount = [v \in Versions |-> 0]
  /\ rpc = [r \in Runners |-> "idle"]
  /\ plan = [r \in Runners |-> <<>>]
  /\ ropts = [r \in Runners |-> NoOpts]
  /\ rbInfo = [r \in Runners |-> NoRollback]
  /\ migRet = [r \in Runners |-> NoMigRet]
  /\ mcalls = [callers |-> {}, rollback |-> FALSE]
  /\ tablesExist = FALSE

\* a single runner calls migrate and rollback, awaiting each call
NextMig ==
  \E r \in {"r1"} :
    \/ \E dryRun, force, continueOnError, createOk, selectOk, queryOk,
          countNumeric \in BOOLEAN :
         Migrate(r, dryRun, force, continueOnError, createOk, selectOk, queryOk,
                 countNumeric)
    \/ \E lockOk, relOk \in BOOLEAN : MigrateLock(r, lockOk, relOk)
    \/ \E upOk, insertOk, relOk \in BOOLEAN : MigrateUp(r, upOk, insertOk, relOk)
    \/ \E steps \in 1..(MaxVersion + 1), dryRun, force, selectOk \in BOOLEAN :
         Rollback(r, steps, dryRun, force, selectOk)
    \/ \E lockOk, relOk \in BOOLEAN : RollbackLock(r, lockOk, relOk)
    \/ \E downOk, deleteOk, relOk \in BOOLEAN :
         RollbackDown(r, downOk, deleteOk, relOk)
    \/ MigReturn(r)
    \/ \E key \in LockKeys : Expire(key)

SpecMig == InitMig /\ [][NextMig]_vars

\* two runners migrate the same database at the same time; the statements
\* that create the control tables succeed
NextMigLock ==
  \/ \E r \in Runners, force, continueOnError, selectOk, queryOk,
        countNumeric \in BOOLEAN :
       Migrate(r, FALSE, force, continueOnError, TRUE, selectOk, queryOk,
               countNumeric)
  \/ \E r \in Runners, lockOk, relOk \in BOOLEAN : MigrateLock(r, lockOk, relOk)
  \/ \E r \in Runners, upOk, insertOk, relOk \in BOOLEAN :
       MigrateUp(r, upOk, insertOk, relOk)
  \/ \E r \in Runners : MigReturn(r)
  \/ \E key \in LockKeys : Expire(key)

SpecMigLock == InitMig /\ [][NextMigLock]_vars

\* ------------------------------------------------------------------------
\* Properties of the routing layer
\* ------------------------------------------------------------------------
WriteKeywords == {"insert", "update", "delete", "merge"}

\* C4: through query, a statement whose leading keyword is insert, update,
\* delete or merge, and a read with consistencyLevel strong, runs on the
\* primary pool of its cluster; a replica pool is chosen only for a non-write
\* operation with a consistency level other than strong on a cluster that
\* has replicas.
C4_WritesAndStrongReadsOnPrimary ==
  (connRet.op = "query" /\ connRet.pool # None) =>
    LET isWrite == connRet.sql.kw \in WriteKeywords
        strong == connRet.req.consistencyLevel = "strong"
    IN /\ (isWrite \/ strong) => connRet.slot = "primary"
       /\ connRet.slot = "replica" =>
            /\ ~isWrite
            /\ ~strong
            /\ Len(replicaPools[connRet.cluster]) > 0

\* the first cluster in registration order whose status is active, if any
C5_FirstActive ==
  LET idx == {i \in 1..Len(clusterOrder) : clusterStatus[clusterOrder[i]] = "active"}
  IN IF idx = {} THEN None
     ELSE clusterOrder[CHOOSE i \in idx : \A j \in idx : i <= j]

C5_PoolsOf(c) == {primaryPool[c]} \cup Range(replicaPools[c])

\* C5: getConnection resolves the target cluster as the caller's clusterId if
\* given, otherwise the cluster mapped to the caller's schema (unknown-schema
\* error when there is no mapping), otherwise the first cluster in
\* registration order whose status is active (error when none is); the
\* connection handed out comes from a pool of that cluster and carries its id
\* in its metadata.
C5_TargetResolution ==
  (connRet.op = "getConnection" /\ isInitialized) =>
    LET o == connRet.req
        expected == IF o.clusterId # None THEN o.clusterId
                    ELSE IF o.schema # None THEN schemaClusterMap[o.schema]
                    ELSE C5_FirstActive
    IN /\ connRet.outcome = "ok" =>
            /\ connRet.cluster = expected
            /\ connRet.pool \in C5_PoolsOf(expected)
            /\ connRet.pool[1] = expected
            /\ connRet.meta = expected
       /\ (o.clusterId = None /\ o.schema # None
             /\ schemaClusterMap[o.schema] = None) =>
            (connRet.outcome = "error" /\ connRet.err = "unknown_schema")
       /\ (o.clusterId = None /\ o.schema = None /\ C5_FirstActive = None) =>
            (connRet.outcome = "error" /\ connRet.err = "no_active_cluster")

\* a default-routed request that skipped a down cluster registered first
C5_Witness ==
  /\ connRet.op = "getConnection"
  /\ connRet.outcome = "ok"
  /\ connRet.req.clusterId = None
  /\ connRet.req.schema = None
  /\ Len(clusterOrder) = 2
  /\ clusterStatus[clusterOrder[1]] = "down"
  /\ connRet.cluster = clusterOrder[2]

\* C6: getConnection hands out no connection of a cluster whose status is not
\* active to a request that reached the cluster by schema routing or by
\* default selection; only a request naming the cluster by clusterId gets one.
C6_NonActiveRejected ==
  (connRet.op = "getConnection" /\ connRet.outcome = "ok"
     /\ connRet.req.clusterId = None) =>
    connRet.status = "active"


\* ------------------------------------------------------------------------
\* Properties of the commit protocol
\* ------------------------------------------------------------------------
Issued(t, c, stmt) == stmt \in Range(sent[t][c])

\* C1: when commit of a transaction that spans more than one cluster has
\* returned normally, COMMIT PREPARED succeeded on every participant.
C1_CommitOkMeansAllCommitted ==
  \A t \in TxIds :
    (txRet[t].commit = "ok" /\ Cardinality(txClusters[t]) > 1) =>
      /\ txState[t] = "committed"
      /\ txEvents[t].transactionCommitted = 1
      /\ cpOk[t] = txClusters[t]

\* C2: when commit of an active transaction has returned with an error, every
\* participant has been sent ROLLBACK or ROLLBACK PREPARED (ROLLBACK PREPARED
\* where its PREPARE TRANSACTION succeeded, ROLLBACK where it failed), none
\* has been sent COMMIT PREPARED, the state is aborted and transactionAborted
\* has been emitted exactly once.
C2_CommitErrorMeansRolledBack ==
  \A t \in TxIds :
    txRet[t].commit = "error" =>
      /\ \A c \in txClusters[t] :
           /\ Issued(t, c, "ROLLBACK") \/ Issued(t, c, "ROLLBACK_PREPARED")
           /\ c \in prepOk[t] => Issued(t, c, "ROLLBACK_PREPARED")
           /\ (Issued(t, c, "PREPARE") /\ c \notin prepOk[t]) =>
                Issued(t, c, "ROLLBACK")
           /\ ~Issued(t, c, "COMMIT_PREPARED")
      /\ txState[t] = "aborted"
      /\ txEvents[t].transactionAborted = 1
      /\ txEvents[t].transactionCommitted = 0

\* a two-cluster commit that failed after PREPARE TRANSACTION succeeded on
\* one participant and failed on the other
C2_Witness ==
  \E t \in TxIds :
    /\ txRet[t].commit = "error"
    /\ Cardinality(txClusters[t]) = 2
    /\ Cardinality(prepOk[t]) = 1

\* C3: in a multi-cluster commit COMMIT PREPARED is issued to a participant
\* only after PREPARE TRANSACTION succeeded on every participant, and
\* transactionCommitted is emitted only after COMMIT PREPARED was issued to
\* every participant; a commit of a transaction with exactly one cluster
\* issues a plain COMMIT and no PREPARE TRANSACTION.
C3_PhaseOrder ==
  \A t \in TxIds :
    /\ \A c \in ClusterIds :
         Issued(t, c, "COMMIT_PREPARED") =>
           /\ Cardinality(txClusters[t]) > 1
           /\ prepOk[t] = txClusters[t]
    /\ (Cardinality(txClusters[t]) > 1 /\ txEvents[t].transactionCommitted > 0) =>
         \A c \in txClusters[t] : Issued(t, c, "COMMIT_PREPARED")
    /\ Cardinality(txClusters[t]) = 1 =>
         \A c \in txClusters[t] :
           /\ ~Issued(t, c, "PREPARE")
           /\ (txState[t] \in {"committing", "committed"}
                 \/ txRet[t].commit # None) => Issued(t, c, "COMMIT")

\* a committed two-cluster transaction next to a committed one-cluster one
C3_Witness ==
  \E t, u \in TxIds :
    /\ Cardinality(txClusters[t]) = 2
    /\ txEvents[t].transactionCommitted = 1
    /\ Cardinality(txClusters[u]) = 1
    /\ txRet[u].commit = "ok"

\* ------------------------------------------------------------------------
\* Properties of the migration engine
\* ------------------------------------------------------------------------
\* no runner but r has made a call, and r has made no rollback
OnlyMigratesOf(r) == mcalls.callers \subseteq {r} /\ ~mcalls.rollback

\* C7: two runners never execute the up of the same migration for the same
\* (schema, cluster) at the same time.
C7_LockSerializesUp ==
  \A r, q \in Runners :
    (r # q /\ rpc[r] = "m_up" /\ rpc[q] = "m_up") => Head(plan[r]) # Head(plan[q])

\* C8: in a migrate without force by a single runner, while a migration's up
\* runs every version listed in its dependencies is recorded as applied.
C8_DependenciesAppliedFirst ==
  \A r \in Runners :
    (rpc[r] = "m_up" /\ ~ropts[r].force /\ OnlyMigratesOf(r)) =>
      migrations[Head(plan[r])].dependencies \subseteq records

\* C9: across the migrate calls of a single runner with no rollback in
\* between, no migration's up completes more than once.
C9_UpAtMostOnce ==
  (\E r \in Runners : OnlyMigratesOf(r)) =>
    \A v \in Versions : upCount[v] <= 1

\* the k largest elements of a set of versions
TopVersions(S, k) == Range(SubSeq(Reverse(SortAsc(S)), 1, Min(k, Cardinality(S))))

\* C10: when a rollback of k steps has returned and none of its down
\* functions failed, the records removed are exactly the min(k, n) largest of
\* the n versions applied at its start, and every other record is unchanged.
C10_RollbackRemovesLargest ==
  \A r \in Runners :
    (migRet[r].op = "rollback" /\ ~migRet[r].dryRun /\ ~rbInfo[r].downFailed) =>
      migRet[r].after = rbInfo[r].before \ TopVersions(rbInfo[r].before, rbInfo[r].steps)

\* C11: a migrate or rollback called with dryRun leaves the database as it
\* was: the control tables are not created, no record and no lock row is
\* written or removed, no up has run, and the call returns without a
\* migration left to execute.
C11_DryRunWritesNothing ==
  [][\A r \in Runners :
       \/ \E force, continueOnError, createOk, selectOk, queryOk,
             countNumeric \in BOOLEAN :
            Migrate(r, TRUE, force, continueOnError, createOk, selectOk,
                    queryOk, countNumeric)
       \/ \E steps \in 1..MaxVersion, force, selectOk \in BOOLEAN :
            Rollback(r, steps, TRUE, force, selectOk)
       => /\ tablesExist' = tablesExist
          /\ records' = records
          /\ lockRows' = lockRows
          /\ upCount' = upCount
          /\ rpc'[r] = "idle"]_vars


\* the moves of a transaction's state that commit and rollback may make; a
\* commit of a transaction without participants passes through committing to
\* aborted in one step
TxMoves ==
  {<<None, "preparing">>, <<None, "prepared">>, <<"preparing", "prepared">>,
   <<"prepared", "committing">>, <<"committing", "committed">>,
   <<"prepared", "aborted">>,
   <<"committing", "aborted">>, <<"preparing", "aborting">>,
   <<"prepared", "aborting">>, <<"committing", "aborting">>,
   <<"aborting", "aborted">>}

\* C12: whatever the interleaving of commit, rollback and execute calls on a
\* transaction id, the state of the transaction only moves forward along
\* preparing, prepared, committing, committed or through aborting to aborted,
\* and once it is committed or aborted it never changes again.
C12_TerminalStatesFinal ==
  [][\A t \in TxIds :
       /\ txState'[t] # txState[t] => <<txState[t], txState'[t]>> \in TxMoves
       /\ txState[t] \in {"committed", "aborted"} => txState'[t] = txState[t]]_vars


\* C13: execute is refused, sends nothing and leaves the state of the
\* transaction alone when the transaction is not prepared, when the operation
\* names neither a schema nor a cluster, or when the cluster it resolves to is
\* not a participant; otherwise the statement is appended, after everything
\* sent before, to what was sent on the transaction's connection to that
\* cluster, and nothing is sent anywhere else.
C13_ExecuteChecksThenSends ==
  [][\A t \in TxIds, o \in ExecRequests :
       Execute(t, o) =>
         LET target == ExecTarget(o)
             refused == \/ txState[t] # "prepared"
                        \/ (o.schema = None /\ o.clusterId = None)
                        \/ target \notin txClusters[t]
         IN /\ txState' = txState
            /\ refused => /\ sent' = sent
                          /\ txRet'[t].execute = "rejected"
            /\ ~refused =>
                 /\ txRet'[t].execute \in {"ok", "failed"}
                 /\ target \in txConns[t]
                 /\ sent'[t][target] =
                      Append(sent[t][target], ExecNames[ExecCount(t) + 1])
                 /\ \A u \in TxIds, c \in ClusterIds :
                      <<u, c>> # <<t, target>> => sent'[u][c] = sent[u][c]]_vars

\* two statements were executed on the same connection, and a later execute
\* was refused
C13_Witness ==
  \E t \in TxIds, c \in ClusterIds :
    /\ "EXEC1" \in Range(sent[t][c])
    /\ "EXEC2" \in Range(sent[t][c])
    /\ txRet[t].execute = "rejected"


\* C14: when withTransaction is over the transaction is no longer active; it
\* returned normally exactly when the callback returned and commit succeeded,
\* and otherwise the transaction was rolled back and the error raised is the
\* one of the callback or of commit.
C14_WithTransactionOutcome ==
  \A t \in TxIds :
    wtPc[t] \in {"returned", "raised_original", "raised_other"} =>
      /\ t \notin activeTransactions
      /\ wtPc[t] = "returned" <=> txRet[t].commit = "ok"
      /\ wtPc[t] # "returned" =>
           /\ wtPc[t] = "raised_original"
           /\ txRet[t].begin = "ok" =>
                \A c \in txClusters[t] : Issued(t, c, "ROLLBACK")


\* C15: once begin has failed, or commit or rollback of a transaction has
\* returned, none of the connections acquired for the transaction is still
\* borrowed from its pool.
C15_NoConnectionLeftBorrowed ==
  \A t \in TxIds :
    \/ txRet[t].begin = "error"
    \/ /\ pc[t] = "idle" /\ rbPc[t] = "idle"
       /\ (txRet[t].commit # None \/ txRet[t].rollback # None)
    => \A c \in ClusterIds : <<t, c>> \notin borrowed


\* C16: once close has closed the pools, every transaction that was begun has
\* been rolled back or had ended before: it is committed or aborted and none
\* of its connections is still borrowed; and when close is over no
\* transaction is active.
C16_CloseRollsBackFirst ==
  /\ ~isInitialized =>
       \A t \in TxIds :
         txRet[t].begin = "ok" =>
           /\ txState[t] \in {"committed", "aborted"}
           /\ \A c \in ClusterIds : <<t, c>> \notin borrowed
  /\ closer.pc = "closed" => activeTransactions = {}


\* C17: a transaction begun with a timeout that is still prepared when the
\* timeout has passed ends up aborted with its connections released, without
\* a call of commit or rollback by its owner.
C17_TimeoutRollsBack ==
  \A t \in TxIds :
    (txDeadline[t] = "passed" /\ txState[t] = "prepared")
      ~> (txState[t] = "aborted" /\ \A c \in ClusterIds : <<t, c>> \notin borrowed)


\* what the events of one cluster must look like: clusterDown and clusterUp
\* alternate, clusterDown first, and clusterRecovered stands directly before
\* every clusterUp and nowhere else
HealthLogAlternates(log) ==
  \A i \in 1..Len(log) :
    /\ log[i] = "clusterDown" => (i = 1 \/ log[i - 1] = "clusterUp")
    /\ log[i] = "clusterRecovered" =>
         /\ i > 1 /\ log[i - 1] = "clusterDown"
         /\ i < Len(log) /\ log[i + 1] = "clusterUp"
    /\ log[i] = "clusterUp" => (i > 1 /\ log[i - 1] = "clusterRecovered")

DuplicateSchemas(clusters, schemasOf) ==
  {s \in Schemas : Cardinality({c \in clusters : s \in schemasOf[c]}) > 1}

\* C19: when initialize has succeeded no schema is listed by two of the
\* registered clusters, and every listed schema is mapped to the one cluster
\* that lists it; a configuration with a duplicated schema never gets a
\* manager initialized.
C19_InitializedMeansValidConfig ==
  isInitialized =>
    /\ DuplicateSchemas(Registered, clusterSchemas) = {}
    /\ \A c \in Registered : \A s \in clusterSchemas[c] : schemaClusterMap[s] = c


\* C20: a schema that registerSchema has mapped to a cluster is listed by no
\* other cluster, and a getConnection that names the schema and no cluster
\* is routed to that cluster.
C20_RegisteredSchemaRoutes ==
  \A s \in Schemas \cup {Ghost} :
    coord.schemas[s] # None =>
      /\ \A c \in Registered \ {coord.schemas[s]} : s \notin clusterSchemas[c]
      /\ (connRet.op = "getConnection" /\ connRet.req.schema = s
            /\ connRet.req.clusterId = None)
           => connRet.cluster = coord.schemas[s]

\* ------------------------------------------------------------------------
\* ClusterManager.forceFailover
\* ------------------------------------------------------------------------
\* the list without its element at (0-based) index idx: Array.splice(idx, 1)
Splice(list, idx) ==
  [i \in 1..(Len(list) - 1) |-> IF i <= idx THEN list[i] ELSE list[i + 1]]

\* the pools with the old primary put at the head of the replica list
FailoverPools_Unshift(primary, replicas, idx) ==
  [primary |-> replicas[idx + 1],
   replicas |-> <<primary>> \o Splice(replicas, idx)]

\* pools.primary and pools.replicas after the promotion of replicas[idx]
FailoverPools(primary, replicas, idx) ==
  [primary |-> replicas[idx + 1],
   replicas |-> Splice(replicas, idx) \o <<primary>>]

\* forceFailover(c, idx) for an index of the replica list; the call throws
\* and changes nothing for an unknown cluster or an empty replica list
ForceFailover(c, idx) ==
  /\ connRet = NoRet
  /\ IF c \notin Registered
     THEN /\ connRet' = [NoRet EXCEPT !.op = "forceFailover",
                           !.outcome = "error", !.err = "cluster_not_found",
                           !.cluster = c]
          /\ UNCHANGED <<primaryPool, replicaPools>>
     ELSE IF replicaPools[c] = <<>>
     THEN /\ connRet' = [NoRet EXCEPT !.op = "forceFailover",
                           !.outcome = "error", !.err = "no_replicas",
                           !.cluster = c]
          /\ UNCHANGED <<primaryPool, replicaPools>>
     ELSE /\ idx < Len(replicaPools[c])
          /\ LET p == FailoverPools(primaryPool[c], replicaPools[c], idx)
             IN /\ primaryPool' = [primaryPool EXCEPT ![c] = p.primary]
                /\ replicaPools' = [replicaPools EXCEPT ![c] = p.replicas]
          /\ connRet' = [NoRet EXCEPT !.op = "forceFailover",
                           !.outcome = "ok", !.cluster = c]
  /\ UNCHANGED <<isInitialized, clusterOrder, clusterStatus, clusterSchemas,
                 schemaClusterMap, healthData, currentIndex, hcInFlight,
                 hcLog, coord>>
  /\ UNCHANGED <<txVars, migVars, libVars>>

\* an initialized manager on which failovers are forced between the calls
\* that ask for connections
NextFailover ==
  \/ \E c \in ClusterIds \cup {UnknownCluster}, idx \in 0..(MaxReplicas - 1) :
       ForceFailover(c, idx)
  \/ /\ connRet = NoRet
     /\ \E o \in QueryOptions, acquired \in BOOLEAN : GetConnection(o, acquired)
  \/ Return

SpecFailover == InitQuery /\ [][NextFailover]_vars

\* C21: forceFailover(c, idx) with idx an index of the replica list makes
\* replicas[idx] the primary pool and puts the former primary at the tail of
\* the replica list: the pools of the cluster and the number of replicas
\* stay the same, the other replicas keep their order, and a write on the
\* cluster gets its connection from the primary pool of that moment, the
\* promoted replica.
C21_FailoverSwapsPrimary ==
  /\ [](\A c \in Registered :
          (connRet.op = "getConnection" /\ connRet.outcome = "ok"
             /\ connRet.cluster = c /\ connRet.req.operation = "write")
          => connRet.pool = primaryPool[c])
  /\ [][\A c \in Registered, idx \in 0..(MaxReplicas - 1) :
          (idx < Len(replicaPools[c]) /\ ForceFailover(c, idx)) =>
            LET n == Len(replicaPools[c])
            IN /\ primaryPool'[c] = replicaPools[c][idx + 1]
               /\ Len(replicaPools'[c]) = n
               /\ replicaPools'[c][n] = primaryPool[c]
               /\ Range(replicaPools'[c]) \cup {primaryPool'[c]}
                    = Range(replicaPools[c]) \cup {primaryPool[c]}
               /\ SubSeq(replicaPools'[c], 1, n - 1)
                    = SelectSeq(replicaPools[c],
                                LAMBDA p : p # replicaPools[c][idx + 1])]_vars

\* a write was served by a pool that was created as a replica and promoted,
\* in a cluster that keeps two replicas of which the last is the old primary
C21_Witness ==
  \E c \in Registered :
    /\ connRet.op = "getConnection" /\ connRet.outcome = "ok"
    /\ connRet.cluster = c /\ connRet.req.operation = "write"
    /\ connRet.pool = PoolId(c, "replica", 0)
    /\ Len(replicaPools[c]) = 2
    /\ replicaPools[c][2] = PoolId(c, "primary", 0)

\* ------------------------------------------------------------------------
\* LoadBalancer.selectReplica on one replica list
\* ------------------------------------------------------------------------
\* a LoadBalancer that is given the same list of n replicas in every call;
\* currentIndex is what earlier selections over another list left behind
\* (0 for a new LoadBalancer)
InitBalance ==
  \E n \in 1..MaxList, cur \in 0..(MaxList - 1) :
    /\ isInitialized = FALSE
    /\ clusterOrder = <<>>
    /\ clusterStatus = [c \in ClusterIds |-> None]
    /\ clusterSchemas = [c \in ClusterIds |-> {}]
    /\ primaryPool = [c \in ClusterIds |-> None]
    /\ replicaPools = [c \in ClusterIds |-> <<>>]
    /\ schemaClusterMap = EmptySchemaMap
    /\ healthData = [c \in ClusterIds |-> HealthAbsent]
    /\ currentIndex = cur
    /\ connRet = NoRet
    /\ InitHC
    /\ coord = NoCoord
    /\ InitTM
    /\ lbList = [n |-> n, start |-> cur]
    /\ lbLog = <<>>
    /\ InitCache
    /\ InitPool
    /\ InitPar /\ InitUpd /\ InitStats /\ InitFb /\ InitDur /\ InitLk /\ InitRr
    /\ InitMM

\* one call of selectReplica(replicas) with strategy round_robin
SelectReplica ==
  /\ Len(lbLog) < MaxSelections
  /\ LET sel == selectReplica(lbList.n, currentIndex)
     IN /\ lbLog' = Append(lbLog, sel[1])
        /\ currentIndex' = sel[2]
  /\ UNCHANGED <<isInitialized, clusterOrder, clusterStatus, clusterSchemas,
                 primaryPool, replicaPools, schemaClusterMap, healthData,
                 connRet, hcInFlight, hcLog, coord, lbList, cacheVars,
                 poolVars, parVars, updVars,
                 statVars,
                 fbVars,
                 durVars,
                 lkVars,
                 rrVars>>
  /\ UNCHANGED <<txVars, migVars>>

NextBalance == SelectReplica

SpecBalance == InitBalance /\ [][NextBalance]_vars

\* number of times index r occurs in a log of selections
Selected(log, r) == Cardinality({i \in 1..Len(log) : log[i] = r})

\* C22: with strategy round_robin and the same list of N >= 2 replicas in
\* every call, every returned index is an index of the list, each selection
\* returns the successor (modulo N) of the one before, a new LoadBalancer
\* starts at index 0, and after N x K selections every replica has been
\* selected exactly K times.
C22_RoundRobinBalanced ==
  lbList.n >= 2 =>
    /\ \A i \in 1..Len(lbLog) :
         /\ lbLog[i] \in 0..(lbList.n - 1)
         /\ i > 1 => lbLog[i] = (lbLog[i - 1] + 1) % lbList.n
         /\ lbList.start = 0 => lbLog[i] = (i - 1) % lbList.n
    /\ \A K \in 1..MaxSelections :
         Len(lbLog) = lbList.n * K =>
           \A r \in 0..(lbList.n - 1) : Selected(lbLog, r) = K

\* a new LoadBalancer has made two full rounds over a list of three replicas
C22_Witness ==
  /\ lbList = [n |-> 3, start |-> 0]
  /\ lbLog = <<0, 1, 2, 0, 1, 2>>

\* ------------------------------------------------------------------------
\* MemoryCache.get / set / invalidateBySchema / invalidateByTags / cleanup
\* ------------------------------------------------------------------------
\* isExpired with the comparison against one tick past the expiry
isExpired_Late(entry, t) == t > entry.ttl + 1

\* MemoryCache.isExpired, for the clock reading t
isExpired(entry, t) == t > entry.ttl

InCache(k) == k \in Range(cacheKeys)

\* Map.delete of a set of keys
WithoutKeys(keys, gone) == SelectSeq(keys, LAMBDA k : k \notin gone)

\* the first key, in the iteration order of the map, whose metric is the
\* smallest (the loops replace their candidate only on a strictly smaller
\* value); None for an empty map
FirstMin(keys, metric) ==
  IF keys = <<>> THEN None
  ELSE keys[CHOOSE i \in 1..Len(keys) :
              \A j \in 1..Len(keys) :
                /\ metric[keys[i]] <= metric[keys[j]]
                /\ j < i => metric[keys[j]] > metric[keys[i]]]

getLRUKey(keys, c) == FirstMin(keys, [k \in CacheKeys |-> c[k].lastAccessed])

getLFUKey(keys, c) == FirstMin(keys, [k \in CacheKeys |-> c[k].accessCount])

getFIFOKey(keys, c) == FirstMin(keys, [k \in CacheKeys |-> c[k].createdAt])

\* evictByStrategy choosing the most recently created entry under fifo
KeyToEvict_Newest(strategy, keys, c) ==
  IF strategy = "lru" THEN getLRUKey(keys, c)
  ELSE IF strategy = "lfu" THEN getLFUKey(keys, c)
  ELSE FirstMin(keys, [k \in CacheKeys |-> 0 - c[k].createdAt])

\* the key evictByStrategy deletes
KeyToEvict(strategy, keys, c) ==
  IF strategy = "lru" THEN getLRUKey(keys, c)
  ELSE IF strategy = "lfu" THEN getLFUKey(keys, c)
  ELSE getFIFOKey(keys, c)

CacheMiss(op, k) == [NoCacheRet EXCEPT !.op = op, !.key = k, !.at = now]

\* MemoryCache.get(k); reads stop at accessCount = MaxAccess
Get(k) ==
  /\ IF ~InCache(k)
     THEN /\ cacheRet' = CacheMiss("get", k)
          /\ UNCHANGED <<cacheKeys, cache>>
     ELSE IF isExpired(cache[k], now)
     THEN /\ cacheKeys' = WithoutKeys(cacheKeys, {k})
          /\ cache' = [cache EXCEPT ![k] = NoEntry]
          /\ cacheRet' = [CacheMiss("get", k) EXCEPT !.evicted = k]
     ELSE /\ cache[k].accessCount < MaxAccess
          /\ cache' = [cache EXCEPT ![k].accessCount = @ + 1,
                                    ![k].lastAccessed = now]
          /\ cacheRet' = [NoCacheRet EXCEPT !.op = "get", !.key = k,
                            !.hit = TRUE, !.value = cache[k].value,
                            !.expiry = cache[k].ttl, !.at = now]
          /\ UNCHANGED cacheKeys
  /\ UNCHANGED <<cacheCfg, now>>

\* options of set: ttl 0 stands for no ttl given
SetOptions == [ttl : {0, 1}, tags : SUBSET Schemas, schema : Schemas \cup {None}]

\* what set(k, v, o) at clock reading t makes of the map (keys, c): the key
\* it evicts, if any, and the map after the insertion
SetResult(keys, c, k, v, o, t) ==
  LET ttl == IF o.ttl = 0 THEN DefaultTtl ELSE o.ttl
      entry == [value |-> v, ttl |-> t + ttl, createdAt |-> t,
                accessCount |-> 0, lastAccessed |-> t,
                tags |-> o.tags, schema |-> o.schema]
      full == Len(keys) >= cacheCfg.maxSize
      out == IF full THEN {KeyToEvict(cacheCfg.strategy, keys, c)} ELSE {}
      kept == WithoutKeys(keys, out)
  IN [keys |-> IF k \in Range(kept) THEN kept ELSE Append(kept, k),
      cache |-> [x \in CacheKeys |->
                   IF x = k THEN entry
                   ELSE IF x \in out THEN NoEntry ELSE c[x]],
      evicted |-> IF full THEN KeyToEvict(cacheCfg.strategy, keys, c)
                  ELSE None]

\* MemoryCache.set(k, v, o)
Set(k, v, o) ==
  /\ LET r == SetResult(cacheKeys, cache, k, v, o, now)
     IN /\ cacheKeys' = r.keys
        /\ cache' = r.cache
        /\ cacheRet' = [NoCacheRet EXCEPT !.op = "set", !.key = k, !.at = now,
                                          !.evicted = r.evicted]
  /\ UNCHANGED <<cacheCfg, now>>

\* the keys an invalidation removes, and the call itself
Invalidate(op, gone) ==
  /\ cacheKeys' = WithoutKeys(cacheKeys, gone)
  /\ cache' = [k \in CacheKeys |-> IF k \in gone THEN NoEntry ELSE cache[k]]
  /\ cacheRet' = [NoCacheRet EXCEPT !.op = op, !.at = now,
                                    !.count = Cardinality(gone)]
  /\ UNCHANGED <<cacheCfg, now>>

\* invalidateBySchema matching the tags instead of the schema field
SchemaMatches_ByTag(k, schema) == schema \in cache[k].tags

SchemaMatches(k, schema) == cache[k].schema = schema

InvalidateBySchema(schema) ==
  Invalidate("invalidateBySchema",
             {k \in Range(cacheKeys) : SchemaMatches(k, schema)})

InvalidateByTags(tags) ==
  Invalidate("invalidateByTags",
             {k \in Range(cacheKeys) : cache[k].tags \cap tags # {}})

\* MemoryCache.cleanup, run by the interval timer
Cleanup ==
  /\ cacheKeys' = SelectSeq(cacheKeys, LAMBDA k : ~(now > cache[k].ttl))
  /\ cache' = [k \in CacheKeys |->
                 IF InCache(k) /\ now > cache[k].ttl THEN NoEntry ELSE cache[k]]
  /\ UNCHANGED <<cacheCfg, now, cacheRet>>

\* the clock advances
Tick ==
  /\ now < MaxTime
  /\ now' = now + 1
  /\ UNCHANGED <<cacheCfg, cacheKeys, cache, cacheRet>>

\* a MemoryCache constructed with some maxSize and strategy, used on its own
InitCacheOnly ==
  /\ InitCM /\ InitTM /\ InitMM /\ InitLB /\ InitPool /\ InitPar /\ InitUpd /\ InitStats /\ InitFb /\ InitDur /\ InitLk /\ InitRr
  /\ cacheCfg \in [maxSize : 1..MaxCacheSize, strategy : Strategies]
  /\ cacheKeys = <<>>
  /\ cache = [k \in CacheKeys |-> NoEntry]
  /\ now = 0
  /\ cacheRet = NoCacheRet

CacheFrame == UNCHANGED <<cmVars, txVars, migVars, lbList, lbLog, poolVars,
                 parVars, updVars,
                 statVars,
                 fbVars,
                 durVars,
                 lkVars,
                 rrVars>>

\* entries without tags and schema, set with and without a ttl, read, swept
\* and evicted while the clock advances
PlainOptions == {o \in SetOptions : o.tags = {} /\ o.schema = None}

NextCache ==
  \/ \E k \in CacheKeys : Get(k) /\ CacheFrame
  \/ \E k \in CacheKeys, o \in PlainOptions : Set(k, "v1", o) /\ CacheFrame
  \/ Cleanup /\ CacheFrame
  \/ Tick /\ CacheFrame

SpecCache == InitCacheOnly /\ [][NextCache]_vars

\* the caller takes the result of its call on the cache
CacheReturn ==
  /\ cacheRet # NoCacheRet
  /\ cacheRet' = NoCacheRet
  /\ UNCHANGED <<cacheCfg, cacheKeys, cache, now>>

\* a MemoryCache that has room for every key, filled with entries of
\* different tags and schemas, read, and invalidated by schema and by tags,
\* one call after the other
InitInvalidate ==
  /\ InitCM /\ InitTM /\ InitMM /\ InitLB /\ InitPool /\ InitPar /\ InitUpd /\ InitStats /\ InitFb /\ InitDur /\ InitLk /\ InitRr
  /\ cacheCfg = [maxSize |-> Cardinality(CacheKeys), strategy |-> "lru"]
  /\ cacheKeys = <<>>
  /\ cache = [k \in CacheKeys |-> NoEntry]
  /\ now = 0
  /\ cacheRet = NoCacheRet

LabelOptions ==
  {o \in SetOptions : o.ttl = 0 /\ o.tags \in {{}, {"users"}, Schemas}}

NextInvalidate ==
  \/ /\ cacheRet = NoCacheRet
     /\ \E k \in CacheKeys : cache[k].accessCount = 0 /\ Get(k) /\ CacheFrame
  \/ /\ cacheRet = NoCacheRet
     /\ \E k \in CacheKeys, o \in LabelOptions : Set(k, "v2", o) /\ CacheFrame
  \/ /\ cacheRet = NoCacheRet
     /\ \E s \in Schemas : InvalidateBySchema(s) /\ CacheFrame
  \/ /\ cacheRet = NoCacheRet
     /\ \E T \in SUBSET Schemas : InvalidateByTags(T) /\ CacheFrame
  \/ CacheReturn /\ CacheFrame

SpecInvalidate == InitInvalidate /\ [][NextInvalidate]_vars

\* C24: get never returns an entry whose absolute expiry (the time of its
\* set plus the ttl in effect) is earlier than the current time; a get that
\* finds such an entry reports a miss and removes the entry.
C24_GetNeverReturnsExpired ==
  /\ [](/\ (cacheRet.op = "get" /\ cacheRet.hit) => cacheRet.at <= cacheRet.expiry
        /\ \A k \in Range(cacheKeys) :
             cache[k].ttl - cache[k].createdAt \in {1, DefaultTtl})
  /\ [][\A k \in CacheKeys :
          (/\ InCache(k) /\ now > cache[k].ttl
           /\ cacheRet'.op = "get" /\ cacheRet'.key = k
           /\ Get(k)) =>
            /\ ~cacheRet'.hit
            /\ cacheRet'.value = None
            /\ k \notin Range(cacheKeys')]_vars

\* a get found the entry of its key expired, reported a miss and removed it
C24_Witness ==
  /\ cacheRet.op = "get" /\ ~cacheRet.hit
  /\ cacheRet.evicted = cacheRet.key
  /\ ~InCache(cacheRet.key)

\* the value a strategy looks at
EvictionMetric(strategy, entry) ==
  IF strategy = "lru" THEN entry.lastAccessed
  ELSE IF strategy = "lfu" THEN entry.accessCount
  ELSE entry.createdAt

\* C25: the cache never holds more than maxSize entries; a set performed
\* when the number of entries is at least maxSize first evicts exactly one
\* entry, one with the smallest lastAccessed under lru, the smallest
\* accessCount under lfu, the smallest createdAt under fifo, and then
\* inserts the new entry.
C25_EvictsOneByStrategy ==
  /\ [](Len(cacheKeys) <= cacheCfg.maxSize)
  /\ [][\A k \in CacheKeys, o \in PlainOptions :
          (/\ Len(cacheKeys) >= cacheCfg.maxSize
           /\ cacheRet'.op = "set" /\ cacheRet'.key = k
           /\ Set(k, "v1", o)) =>
            \E e \in Range(cacheKeys) :
              /\ \A x \in Range(cacheKeys) :
                   EvictionMetric(cacheCfg.strategy, cache[e])
                     <= EvictionMetric(cacheCfg.strategy, cache[x])
              /\ Range(cacheKeys') = (Range(cacheKeys) \ {e}) \cup {k}
              /\ cache'[k].createdAt = now
              /\ \A x \in Range(cacheKeys) \ {e, k} : cache'[x] = cache[x]]_vars

\* a set on a full cache of two entries evicted, under lfu, the entry that
\* was inserted last, and the cache is full again
C25_Witness ==
  /\ cacheRet.op = "set" /\ cacheRet.evicted # None
  /\ cacheCfg = [maxSize |-> 2, strategy |-> "lfu"]
  /\ Len(cacheKeys) = 2
  /\ cacheRet.evicted # cacheRet.key
  /\ cache[cacheKeys[1]].accessCount > 0

\* C26: invalidateBySchema(s) removes exactly the entries stored with
\* schema s and invalidateByTags(T) exactly the entries whose tags intersect
\* T; each returns the number of entries it removed and leaves every other
\* entry, and the order of the remaining keys, unchanged.
C26_InvalidationRemovesExactly ==
  /\ [][\A s \in Schemas :
          (cacheRet'.op = "invalidateBySchema" /\ InvalidateBySchema(s)) =>
            LET gone == {k \in Range(cacheKeys) : cache[k].schema = s}
            IN /\ cacheKeys' = WithoutKeys(cacheKeys, gone)
               /\ cacheRet'.count = Cardinality(gone)
               /\ \A k \in Range(cacheKeys) \ gone : cache'[k] = cache[k]]_vars
  /\ [][\A T \in SUBSET Schemas :
          (cacheRet'.op = "invalidateByTags" /\ InvalidateByTags(T)) =>
            LET gone == {k \in Range(cacheKeys) : cache[k].tags \cap T # {}}
            IN /\ cacheKeys' = WithoutKeys(cacheKeys, gone)
               /\ cacheRet'.count = Cardinality(gone)
               /\ \A k \in Range(cacheKeys) \ gone : cache'[k] = cache[k]]_vars

\* invalidateBySchema removed one entry of three and left an entry that has
\* been read and one that carries the schema as a tag only
C26_Witness ==
  /\ cacheRet.op = "invalidateBySchema" /\ cacheRet.count = 1
  /\ Len(cacheKeys) = 2
  /\ \E k \in Range(cacheKeys) : cache[k].accessCount = 1
  /\ \E k \in Range(cacheKeys) :
       /\ cache[k].tags = Schemas
       /\ cache[k].schema = None

\* ------------------------------------------------------------------------
\* MultiClusterPostgres.query with the cache option, and invalidateCache
\* ------------------------------------------------------------------------
\* the statements sent with the cache option: one read and one write text
CachedTexts == {t \in SqlTexts : t.kw \in {"select", "insert"}}

\* _generateCacheKey with the schema left out of the hashed text
_generateCacheKey_NoSchema(sql, schema) == "k1"

\* _generateCacheKey for the read text and no parameters: the hash of
\* "<sql>||<schema>", one key per schema (the schema may be absent)
_generateCacheKey(sql, schema) ==
  IF schema = "users" THEN "k1" ELSE IF schema = "orders" THEN "k2" ELSE "k3"

\* options of a query that names at most a schema
CachedOptions == {o \in QueryOptions : o.clusterId = None /\ o.operation = None
                                        /\ o.consistencyLevel = None
                                        /\ o.schema # Ghost}

\* query(sql, [], {schema, cache: useCache, cacheTtl}) on a coordinator that
\* has a memory cache. The call is taken
\* as one step; reads of one entry stop at accessCount = MaxAccess.
QueryCached(sql, o, useCache, cacheTtl, io) ==
  LET operation == _detectOperation(sql)
      cached == useCache /\ operation = "read"
      key == _generateCacheKey(sql, o.schema)
      hit == cached /\ InCache(key) /\ ~isExpired(cache[key], now)
      r == ExecuteQueryResult(o, io)
      \* the map after a get that missed
      keys1 == IF cached THEN WithoutKeys(cacheKeys, {key}) ELSE cacheKeys
      cache1 == IF cached THEN [cache EXCEPT ![key] = NoEntry] ELSE cache
      stored == SetResult(keys1, cache1, key, r[1].cluster,
                          [ttl |-> cacheTtl,
                           tags |-> IF o.schema = None THEN {} ELSE {o.schema},
                           schema |-> o.schema], now)
  IN /\ connRet = NoRet
     /\ cacheRet = NoCacheRet
     /\ IF hit
        THEN /\ cache[key].accessCount < MaxAccess
             /\ cache' = [cache EXCEPT ![key].accessCount = @ + 1,
                                       ![key].lastAccessed = now]
             /\ connRet' = [NoRet EXCEPT !.op = "query", !.req = o, !.sql = sql,
                              !.outcome = "ok", !.operation = operation,
                              !.cluster = cache[key].value,
                              !.events = {"cacheHit"}]
             /\ UNCHANGED <<cacheKeys, currentIndex>>
        ELSE /\ connRet' = [r[1] EXCEPT !.operation = operation, !.sql = sql,
                              !.events =
                                (IF cached THEN {"cacheMiss"} ELSE {}) \cup
                                (IF r[1].outcome = "ok" THEN {"queryExecuted"}
                                 ELSE {"queryError"})]
             /\ currentIndex' = r[2]
             /\ IF cached /\ r[1].outcome = "ok"
                THEN cacheKeys' = stored.keys /\ cache' = stored.cache
                ELSE cacheKeys' = keys1 /\ cache' = cache1
     /\ UNCHANGED <<isInitialized, clusterOrder, clusterStatus, clusterSchemas,
                    primaryPool, replicaPools, schemaClusterMap, healthData,
                    hcInFlight, hcLog, coord>>
     /\ UNCHANGED <<cacheCfg, now, cacheRet, lbList, lbLog, poolVars,
                 parVars, updVars,
                 statVars,
                 fbVars,
                 durVars,
                 lkVars,
                 rrVars>>
     /\ UNCHANGED <<txVars, migVars>>

\* invalidateCache(criteria) with the schema or the tags criterion
InvalidateCache(criteria) ==
  /\ connRet = NoRet
  /\ cacheRet = NoCacheRet
  /\ IF criteria.schema # None THEN InvalidateBySchema(criteria.schema)
     ELSE InvalidateByTags(criteria.tags)
  /\ UNCHANGED <<cmVars, txVars, migVars, lbList, lbLog, poolVars,
                 parVars, updVars,
                 statVars,
                 fbVars,
                 durVars,
                 lkVars,
                 rrVars>>

Criteria == [schema : Schemas \cup {None}, tags : {{}, {"users"}}]

\* the caller takes the result of its query or invalidateCache
QueryReturn ==
  /\ connRet # NoRet \/ cacheRet # NoCacheRet
  /\ connRet' = NoRet
  /\ cacheRet' = NoCacheRet
  /\ UNCHANGED <<isInitialized, clusterOrder, clusterStatus, clusterSchemas,
                 primaryPool, replicaPools, schemaClusterMap, healthData,
                 currentIndex, hcInFlight, hcLog, coord>>
  /\ UNCHANGED <<cacheCfg, cacheKeys, cache, now, lbList, lbLog, poolVars,
                 parVars, updVars,
                 statVars,
                 fbVars,
                 durVars,
                 lkVars,
                 rrVars>>
  /\ UNCHANGED <<txVars, migVars>>

\* a coordinator initialized with two clusters without replicas, each
\* listing its own schema, and with a memory cache
InitCachedQuery ==
  /\ isInitialized = TRUE
  /\ clusterOrder = DefaultOrder
  /\ clusterStatus = [c \in ClusterIds |-> "active"]
  /\ clusterSchemas = [c \in ClusterIds |-> {OwnSchema[c]}]
  /\ primaryPool = [c \in ClusterIds |-> PoolId(c, "primary", 0)]
  /\ replicaPools = [c \in ClusterIds |-> <<>>]
  /\ schemaClusterMap = [s \in Schemas \cup {Ghost} |->
                           IF s = "users" THEN "A"
                           ELSE IF s = "orders" THEN "B" ELSE None]
  /\ healthData = [c \in ClusterIds |-> "healthy"]
  /\ currentIndex = 0
  /\ connRet = NoRet
  /\ InitHC
  /\ coord = NoCoord
  /\ InitTM
  /\ InitLib
  /\ InitMM

NextCachedQuery ==
  \/ \E sql \in CachedTexts, o \in CachedOptions, useCache \in BOOLEAN,
        io \in DriverOutcomes :
       QueryCached(sql, o, useCache, 1, io)
  \/ \E criteria \in Criteria : InvalidateCache(criteria)
  \/ QueryReturn
  \/ Tick /\ CacheFrame

SpecCachedQuery == InitCachedQuery /\ [][NextCachedQuery]_vars

\* C23: a query with cache = true on a read statement that finds no
\* unexpired entry under its key misses, executes on the cluster and, when
\* the statement succeeds, stores the result under the key with the schema
\* of the query; one that finds an unexpired entry is answered from the
\* cache, with the entry of the same statement and schema, without executing
\* on a cluster (cacheHit is its only event); invalidateCache({schema})
\* returns the number of entries it removed and leaves no entry of that
\* schema, so that the next identical query misses and executes again.
C23_CachedReadHitsUntilInvalidated ==
  /\ [][\A sql \in {t \in CachedTexts : _detectOperation(t) = "read"},
           o \in CachedOptions, io \in DriverOutcomes :
          (/\ connRet'.op = "query" /\ connRet'.req = o
           /\ QueryCached(sql, o, TRUE, 1, io)) =>
            LET k == _generateCacheKey(sql, o.schema)
            IN IF InCache(k) /\ now <= cache[k].ttl
               THEN /\ connRet'.events = {"cacheHit"}
                    /\ connRet'.outcome = "ok"
                    /\ connRet'.cluster = cache[k].value
                    /\ cache[k].schema = o.schema
                    /\ currentIndex' = currentIndex
                    /\ cacheKeys' = cacheKeys
               ELSE /\ "cacheMiss" \in connRet'.events
                    /\ "cacheHit" \notin connRet'.events
                    /\ io = "ok" =>
                         /\ "queryExecuted" \in connRet'.events
                         /\ k \in Range(cacheKeys')
                         /\ cache'[k].schema = o.schema
                         /\ cache'[k].value = connRet'.cluster
                         /\ cache'[k].ttl = now + 1]_vars
  /\ [][\A s \in Schemas :
          (/\ cacheRet'.op = "invalidateBySchema"
           /\ InvalidateCache([schema |-> s, tags |-> {}])) =>
            /\ cacheRet'.count =
                 Cardinality({k \in Range(cacheKeys) : cache[k].schema = s})
            /\ \A k \in Range(cacheKeys') : cache'[k].schema # s
            /\ _generateCacheKey(CHOOSE t \in CachedTexts : t.kw = "select", s)
                 \notin Range(cacheKeys')]_vars

\* a query on schema users was answered from the cache, by the entry that an
\* earlier identical query stored after executing on cluster A
C23_Witness ==
  /\ connRet.op = "query" /\ connRet.events = {"cacheHit"}
  /\ connRet.req.schema = "users"
  /\ connRet.cluster = "A"
  /\ InCache("k1") /\ cache["k1"].accessCount = 1

\* ------------------------------------------------------------------------
\* ConnectionPool.getConnection / close / _initialize / _waitForReady
\* ------------------------------------------------------------------------
\* the first step of getConnection with the ready flag looked at first
AcquireStart_ReadyFirst(p) ==
  IF p.isReady THEN "connecting"
  ELSE IF p.isClosed THEN "pool_closed" ELSE "waiting"

\* the first step of getConnection: refused on a closed pool, waiting on a
\* pool that is not ready, else on to pool.connect()
AcquireStart(p) ==
  IF p.isClosed THEN "pool_closed"
  ELSE IF ~p.isReady THEN "waiting" ELSE "connecting"

Finished(a, result) == [acq EXCEPT ![a].pc = "done", ![a].result = result]

\* getConnection() up to its first await
Acquire(a) ==
  /\ acq[a].pc = "idle"
  /\ LET first == AcquireStart(cpool)
     IN acq' = [acq EXCEPT
                  ![a] = [pc |-> IF first = "pool_closed" THEN "done" ELSE first,
                          result |-> IF first = "pool_closed" THEN first ELSE None,
                          afterClose |-> cpool.isClosed]]
  /\ UNCHANGED cpool

\* one run of checkReady in _waitForReady
CheckReady(a) ==
  /\ acq[a].pc = "waiting"
  /\ \/ cpool.isReady /\ acq' = [acq EXCEPT ![a].pc = "connecting"]
     \/ ~cpool.isReady /\ cpool.isClosed
          /\ acq' = Finished(a, "closed_while_waiting")
  /\ UNCHANGED cpool

\* the timeout of _waitForReady fires before checkReady has settled the call
WaitTimesOut(a) ==
  /\ acq[a].pc = "waiting"
  /\ acq' = Finished(a, "not_ready_in_time")
  /\ UNCHANGED cpool

\* pool.connect() of getConnection is answered: the driver refuses every
\* connect on a pool on which end() was called, and may fail otherwise
ConnectAnswered(a, ok) ==
  /\ acq[a].pc = "connecting"
  /\ acq' = Finished(a, IF ok /\ ~cpool.ended THEN "connection"
                        ELSE "driver_error")
  /\ UNCHANGED cpool

\* the caller takes the outcome of its call
AcquireReturn(a) ==
  /\ acq[a].pc = "done"
  /\ acq' = [acq EXCEPT ![a] = NoCall]
  /\ UNCHANGED cpool

\* testConnection of _initialize is answered; warmup returns at once when
\* the pool is closed
TestAnswered(ok) ==
  /\ cpool.init = "testing"
  /\ cpool' = IF ~ok THEN [cpool EXCEPT !.init = "failed"]
              ELSE IF cpool.isClosed
                   THEN [cpool EXCEPT !.init = "done", !.isReady = TRUE]
                   ELSE [cpool EXCEPT !.init = "warming"]
  /\ UNCHANGED acq

\* warmup has settled (its failures are swallowed) and _initialize sets
\* isReady
WarmupDone ==
  /\ cpool.init = "warming"
  /\ cpool' = [cpool EXCEPT !.init = "done", !.isReady = TRUE]
  /\ UNCHANGED acq

\* close(): a second call returns at once
ClosePool ==
  /\ ~cpool.isClosed
  /\ cpool' = [cpool EXCEPT !.isClosed = TRUE, !.isReady = FALSE, !.ended = TRUE]
  /\ UNCHANGED acq

PoolFrame ==
  UNCHANGED <<cmVars, txVars, migVars, lbList, lbLog, cacheVars, parVars, updVars,
                 statVars,
                 fbVars,
                 durVars,
                 lkVars,
                 rrVars>>

InitPoolOnly ==
  /\ InitCM /\ InitTM /\ InitMM /\ InitLB /\ InitCache /\ InitPool /\ InitPar /\ InitUpd /\ InitStats /\ InitFb /\ InitDur /\ InitLk /\ InitRr

NextPool ==
  \/ \E a \in Callers : Acquire(a) /\ PoolFrame
  \/ \E a \in Callers : CheckReady(a) /\ PoolFrame
  \/ \E a \in Callers : WaitTimesOut(a) /\ PoolFrame
  \/ \E a \in Callers, ok \in BOOLEAN : ConnectAnswered(a, ok) /\ PoolFrame
  \/ \E a \in Callers : AcquireReturn(a) /\ PoolFrame
  \/ \E ok \in BOOLEAN : TestAnswered(ok) /\ PoolFrame
  \/ WarmupDone /\ PoolFrame
  \/ ClosePool /\ PoolFrame

\* the timers of _waitForReady run and the driver answers every connect
SpecPool ==
  /\ InitPoolOnly /\ [][NextPool]_vars
  /\ \A a \in Callers :
       /\ WF_vars(CheckReady(a) /\ PoolFrame)
       /\ WF_vars(\E ok \in BOOLEAN : ConnectAnswered(a, ok) /\ PoolFrame)

\* C27: a getConnection called after close fails at once with the
\* pool-closed error, also when close was called while _initialize was in
\* flight; no connection is handed out once close has been called; and a
\* getConnection that is waiting for the pool to become ready when close is
\* called ends with a failure.
C27_ClosedPoolRefusesAcquire ==
  /\ [](\A a \in Callers :
          acq[a].afterClose =>
            acq[a].pc = "done" /\ acq[a].result = "pool_closed")
  /\ [][\A a \in Callers :
          (acq'[a].result = "connection" /\ acq[a].result # "connection")
            => ~cpool.isClosed]_vars
  /\ \A a \in Callers :
       (acq[a].pc = "waiting" /\ cpool.isClosed)
         ~> (acq[a].pc = "done" /\ acq[a].result # "connection")

\* close was called during warmup, _initialize then set isReady, and a
\* getConnection called after that was refused with the pool-closed error
\* while an earlier caller, that had been waiting, got the driver's error
C27_Witness ==
  /\ cpool.isClosed /\ cpool.isReady
  /\ acq["a1"] = [pc |-> "done", result |-> "pool_closed", afterClose |-> TRUE]
  /\ acq["a2"] = [pc |-> "done", result |-> "driver_error", afterClose |-> FALSE]

\* C29: rollback executes down in reverse-applied order: while the down of
\* a migration is running in a rollback call, every migration the call has
\* still to roll back has a smaller version, so that a larger version is
\* rolled back, and its record deleted, before the down of a smaller one
\* starts.
C29_RollbackNewestFirst ==
  \A r \in Runners :
    rpc[r] = "r_down" =>
      \A i \in 2..Len(plan[r]) : plan[r][i] < Head(plan[r])

\* ------------------------------------------------------------------------
\* MigrationManager._executeParallel
\* ------------------------------------------------------------------------
\* the order in which _getPendingMigrations visits the schemas
SchemaOrder == <<"users", "orders">>

\* the pending items sorted by version; the sort is stable, so items of one
\* version stay in the order of their schemas
RECURSIVE SortedItems(_, _)
SortedItems(pendingItems, v) ==
  IF v > MaxVersion THEN <<>>
  ELSE SelectSeq([i \in 1..Len(SchemaOrder) |-> <<SchemaOrder[i], v>>],
                 LAMBDA it : it \in pendingItems)
       \o SortedItems(pendingItems, v + 1)

\* the keys of the groups map (one lane per schema) in insertion order
RECURSIVE LaneOrder(_, _)
LaneOrder(sorted, seen) ==
  IF sorted = <<>> THEN <<>>
  ELSE LET s == Head(sorted)[1]
       IN IF s \in seen THEN LaneOrder(Tail(sorted), seen)
          ELSE <<s>> \o LaneOrder(Tail(sorted), seen \cup {s})

\* groupValues.slice(i, i + maxParallel).flat() for i = 0, maxParallel, ...:
\* every batch holds all the items of up to maxParallel lanes
RECURSIVE Batches(_, _, _)
Batches(lanes, pendingItems, maxParallel) ==
  IF lanes = <<>> THEN <<>>
  ELSE LET n == Min(maxParallel, Len(lanes))
           first == {lanes[i] : i \in 1..n}
       IN <<{it \in pendingItems : it[1] \in first}>>
          \o Batches(SubSeq(lanes, n + 1, Len(lanes)), pendingItems, maxParallel)

\* batch.map(async ...): _executeMigration is called for every item of the
\* batch, and each call runs up to its first await, the lock statement
StartBatch(st, batch) ==
  [i \in Items |-> IF i \in batch THEN "locking" ELSE st[i]]

InFlight == {i \in Items : par.st[i] \in {"locking", "up"}}

\* _executeParallel(pendingMigrations, maxParallel, continueOnError, errors),
\* called by migrate when no earlier _executeMigration is still in flight
ExecuteParallel(pendingItems, maxParallel, continueOnError) ==
  /\ ~par.active
  /\ InFlight = {}
  /\ pendingItems # {}
  /\ LET batches == Batches(LaneOrder(SortedItems(pendingItems, 1), {}),
                            pendingItems, maxParallel)
     IN par' = [active |-> TRUE, maxParallel |-> maxParallel,
                continueOnError |-> continueOnError,
                batches |-> batches,
                st |-> StartBatch([i \in Items |->
                                     IF i \in pendingItems THEN "waiting"
                                     ELSE "none"],
                                  Head(batches))]

\* the lock statement of an item is answered: up is called, or the item fails
LockAnswered(item, ok) ==
  /\ par.st[item] = "locking"
  /\ par' = [par EXCEPT !.st[item] = IF ok THEN "up" ELSE "failed"]

\* up of an item has ended; its row is inserted, or the item fails
UpEnded(item, ok) ==
  /\ par.st[item] = "up"
  /\ par' = [par EXCEPT !.st[item] = IF ok THEN "recorded" ELSE "failed"]

\* Promise.all of the current batch settles: it resolves when every item has
\* settled, and rejects as soon as one item has failed without
\* continueOnError, which ends the loop while the other items go on; after
\* the last batch the call returns
BatchSettles ==
  /\ par.active
  /\ LET batch == Head(par.batches)
         rejected == ~par.continueOnError
                       /\ \E i \in batch : par.st[i] = "failed"
         settled == \A i \in batch : par.st[i] \in {"recorded", "failed"}
     IN /\ rejected \/ settled
        /\ IF rejected \/ Len(par.batches) = 1
           THEN par' = [par EXCEPT !.active = FALSE, !.batches = <<>>]
           ELSE par' = [par EXCEPT !.batches = Tail(@),
                                   !.st = StartBatch(par.st, par.batches[2])]

ParFrame ==
  UNCHANGED <<cmVars, txVars, migVars, lbList, lbLog, cacheVars, poolVars,
              updVars,
              statVars,
              fbVars,
              durVars,
              lkVars,
              rrVars>>

NextParallel ==
  \/ \E pendingItems \in SUBSET Items, maxParallel \in 1..MaxParallel,
        continueOnError \in BOOLEAN :
       ExecuteParallel(pendingItems, maxParallel, continueOnError) /\ ParFrame
  \/ \E item \in Items, ok \in BOOLEAN : LockAnswered(item, ok) /\ ParFrame
  \/ \E item \in Items, ok \in BOOLEAN : UpEnded(item, ok) /\ ParFrame
  \/ BatchSettles /\ ParFrame

\* a coordinator with the schemas users and orders on their clusters, whose
\* MigrationManager runs parallel migrations
SpecParallel == InitCachedQuery /\ [][NextParallel]_vars

\* C28: in a parallel migrate the migrations of one lane run one at a time
\* in ascending version order: up of a later version has not been called
\* while an earlier pending version of the same schema has not settled; and
\* the migrations in flight belong to at most maxParallel lanes.
C28_LanesRunInOrder ==
  /\ \A s \in Schemas : \A v1, v2 \in Versions :
       (v1 < v2 /\ par.st[<<s, v2>>] \in {"up", "recorded", "failed"})
         => par.st[<<s, v1>>] \in {"none", "recorded", "failed"}
  /\ par.active =>
       Cardinality({i[1] : i \in InFlight}) <= par.maxParallel

\* ------------------------------------------------------------------------
\* ClusterManager.updateConfig while health checks are in flight
\* ------------------------------------------------------------------------
\* the key orders of a configuration object: the clusters it names
ConfigOrders == {<<>>, <<"A">>, <<"B">>, <<"A", "B">>, <<"B", "A">>}

\* what updateConfig(configs) does, call by call: _removeCluster for every
\* registered cluster the configuration does not name, then for every
\* cluster it names _updateCluster (_removeCluster, _registerCluster) when
\* the cluster is registered and _registerCluster when it is not
RECURSIVE PutCalls(_)
PutCalls(order) ==
  IF order = <<>> THEN <<>>
  ELSE (IF Head(order) \in Registered
        THEN <<<<"remove", Head(order)>>, <<"register", Head(order)>>>>
        ELSE <<<<"register", Head(order)>>>>)
       \o PutCalls(Tail(order))

UpdateCalls(order) ==
  LET gone == SelectSeq(clusterOrder, LAMBDA c : c \notin Range(order))
  IN [i \in 1..Len(gone) |-> <<"remove", gone[i]>>] \o PutCalls(order)

\* updateConfig(configs) up to its first await
UpdateConfig(order) ==
  /\ isInitialized
  /\ ~reload.active
  /\ UpdateCalls(order) # <<>>
  /\ reload' = [active |-> TRUE, todo |-> UpdateCalls(order)]
  /\ UNCHANGED <<cmVars, txVars, migVars, lbList, lbLog, cacheVars, poolVars,
                 parVars,
                 statVars,
                 fbVars,
                 durVars,
                 lkVars,
                 rrVars>>

ReloadAfterCall ==
  [active |-> Len(reload.todo) > 1, todo |-> Tail(reload.todo)]

\* _removeCluster(c): healthChecker.removeCluster deletes the cluster from
\* the clusters map, which the HealthChecker shares with the ClusterManager,
\* and from healthData, before the first await; the pools are closed and the
\* schema mappings deleted after it. A check of the cluster that awaits its
\* probes is not cancelled.
RemoveCluster(c) ==
  /\ reload.active
  /\ Head(reload.todo) = <<"remove", c>>
  /\ clusterOrder' = SelectSeq(clusterOrder, LAMBDA x : x # c)
  /\ healthData' = [healthData EXCEPT ![c] = HealthAbsent]
  /\ clusterStatus' = [clusterStatus EXCEPT ![c] = None]
  /\ clusterSchemas' = [clusterSchemas EXCEPT ![c] = {}]
  /\ primaryPool' = [primaryPool EXCEPT ![c] = None]
  /\ replicaPools' = [replicaPools EXCEPT ![c] = <<>>]
  /\ schemaClusterMap' = [s \in DOMAIN schemaClusterMap |->
                            IF schemaClusterMap[s] = c THEN None
                            ELSE schemaClusterMap[s]]
  /\ reload' = ReloadAfterCall
  /\ UNCHANGED <<isInitialized, currentIndex, connRet, hcInFlight, hcLog,
                 coord>>
  /\ UNCHANGED <<txVars, migVars, lbList, lbLog, cacheVars, poolVars, parVars,
                 statVars,
                 fbVars,
                 durVars,
                 lkVars,
                 rrVars>>

\* _registerCluster(c, config) of a cluster without replicas: when the
\* primary pool becomes ready the cluster is put into the clusters map with
\* status active; when it does not, _waitForPoolReady throws and updateConfig
\* rejects with its remaining calls not made. healthData is not touched.
RegisterCluster(c, ready) ==
  /\ reload.active
  /\ Head(reload.todo) = <<"register", c>>
  /\ IF ready
     THEN /\ clusterOrder' = Append(clusterOrder, c)
          /\ clusterStatus' = [clusterStatus EXCEPT ![c] = "active"]
          /\ clusterSchemas' = [clusterSchemas EXCEPT ![c] = {OwnSchema[c]}]
          /\ primaryPool' = [primaryPool EXCEPT ![c] = PoolId(c, "primary", 0)]
          /\ schemaClusterMap' =
               [schemaClusterMap EXCEPT ![OwnSchema[c]] = c]
          /\ reload' = ReloadAfterCall
     ELSE /\ reload' = NoReload
          /\ UNCHANGED <<clusterOrder, clusterStatus, clusterSchemas,
                         primaryPool, schemaClusterMap>>
  /\ UNCHANGED <<isInitialized, replicaPools, healthData, currentIndex,
                 connRet, hcInFlight, hcLog, coord>>
  /\ UNCHANGED <<txVars, migVars, lbList, lbLog, cacheVars, poolVars, parVars,
                 statVars,
                 fbVars,
                 durVars,
                 lkVars,
                 rrVars>>

\* a check that was in flight when its cluster was removed completes: the
\* events are emitted, the handlers of the ClusterManager find no cluster of
\* that id, and the result is recorded in healthData
HcCompleteRemoved(c, kind, healthy) ==
  /\ kind \in hcInFlight[c]
  /\ c \notin Registered
  /\ Len(hcLog[c]) + Len(HealthEvents(healthData, c, healthy)) <= MaxHealthEvents
  /\ healthData' = [healthData EXCEPT ![c] =
                      IF healthy THEN "healthy" ELSE "unhealthy"]
  /\ hcInFlight' = [hcInFlight EXCEPT ![c] = @ \ {kind}]
  /\ hcLog' = [hcLog EXCEPT ![c] = @ \o HealthEvents(healthData, c, healthy)]
  /\ UNCHANGED <<isInitialized, clusterOrder, clusterStatus, clusterSchemas,
                 primaryPool, replicaPools, schemaClusterMap, currentIndex,
                 connRet, coord>>
  /\ UNCHANGED <<txVars, migVars, libVars>>

\* health checks of an initialized manager whose configuration is reloaded
NextReload ==
  \/ \E c \in ClusterIds, kind \in CheckKinds : HcStart(c, kind)
  \/ \E c \in ClusterIds, kind \in CheckKinds, healthy \in BOOLEAN :
       HcComplete(c, kind, healthy)
  \/ \E c \in ClusterIds, kind \in CheckKinds, healthy \in BOOLEAN :
       HcCompleteRemoved(c, kind, healthy)
  \/ \E order \in ConfigOrders : UpdateConfig(order)
  \/ \E c \in ClusterIds : RemoveCluster(c)
  \/ \E c \in ClusterIds, ready \in BOOLEAN : RegisterCluster(c, ready)

SpecReload == InitHealth /\ [][NextReload]_vars

\* C30: in every state the status of a registered cluster is down exactly
\* when the health result recorded for it last is unhealthy, so that a
\* cluster whose check has turned unhealthy is down and a cluster whose
\* later check has turned healthy is active again and is selected by default
\* routing.
C30_StatusMirrorsHealth ==
  \A c \in Registered :
    clusterStatus[c] = "down" <=> healthData[c] = "unhealthy"

\* ------------------------------------------------------------------------
\* ClusterManager.stats: executeQuery, getConnection, _wrapConnection
\* ------------------------------------------------------------------------
\* calls counted in the specification of the statistics
MaxQueries == 3

\* getConnection: failedQueries counts a failure inside its try block (the
\* pool hands out no connection), activeConnections a connection handed out;
\* an error raised while the target is resolved is counted nowhere
StatsAfterGetConnection(st, r) ==
  IF r.outcome = "ok"
  THEN [st EXCEPT !.activeConnections = @ + 1]
  ELSE IF r.err = "acquire_failed"
       THEN [st EXCEPT !.failedQueries = @ + 1]
       ELSE st

\* executeQuery counting every statement as a success
StatsAfterStatement_AlwaysTotal(st, io) ==
  [st EXCEPT !.totalQueries = @ + 1]

\* executeQuery: totalQueries after the statement, failedQueries in catch
StatsAfterStatement(st, io) ==
  IF io = "ok" THEN [st EXCEPT !.totalQueries = @ + 1]
  ELSE [st EXCEPT !.failedQueries = @ + 1]

\* the release of a connection wrapped by _wrapConnection
ReleaseWrapped(st) ==
  [st EXCEPT !.activeConnections = IF @ - 1 > 0 THEN @ - 1 ELSE 0]

\* the finally block of executeQuery: connection.release(), which is the
\* wrapped release, and then activeConnections--
StatsAfterFinally(st) ==
  [ReleaseWrapped(st) EXCEPT !.activeConnections = @ - 1]

\* executeQuery(sql, params, options)
ExecuteQuery(o, io) ==
  LET got == GetConnectionResult("query", o, io # "no_connection")
      r == ExecuteQueryResult(o, io)
      s1 == StatsAfterGetConnection(stats, got[1])
  IN /\ conns.acquired < MaxQueries
     /\ stats.failedQueries < MaxQueries
     /\ connRet' = r[1]
     /\ currentIndex' = r[2]
     /\ IF got[1].outcome = "ok"
        THEN /\ stats' = StatsAfterFinally(StatsAfterStatement(s1, io))
             /\ conns' = [acquired |-> conns.acquired + 1,
                          released |-> conns.released + 1]
        ELSE /\ stats' = s1
             /\ conns' = conns
     /\ UNCHANGED <<isInitialized, clusterOrder, clusterStatus, clusterSchemas,
                    primaryPool, replicaPools, schemaClusterMap, healthData,
                    hcInFlight, hcLog, coord>>
     /\ UNCHANGED <<txVars, migVars, lbList, lbLog, cacheVars, poolVars,
                    parVars, updVars,
                 fbVars,
                 durVars,
                 lkVars,
                 rrVars>>

\* getConnection(options) called for a connection that is kept: by the
\* caller of MultiClusterPostgres.getConnection, or by begin for a
\* participant of a transaction
GetConnectionKept(o, acquired) ==
  LET r == GetConnectionResult("getConnection", o, acquired)
  IN /\ conns.acquired < MaxQueries
     /\ stats.failedQueries < MaxQueries
     /\ connRet' = r[1]
     /\ currentIndex' = r[2]
     /\ stats' = StatsAfterGetConnection(stats, r[1])
     /\ conns' = IF r[1].outcome = "ok"
                 THEN [conns EXCEPT !.acquired = @ + 1]
                 ELSE conns
     /\ UNCHANGED <<isInitialized, clusterOrder, clusterStatus, clusterSchemas,
                    primaryPool, replicaPools, schemaClusterMap, healthData,
                    hcInFlight, hcLog, coord>>
     /\ UNCHANGED <<txVars, migVars, lbList, lbLog, cacheVars, poolVars,
                    parVars, updVars,
                 fbVars,
                 durVars,
                 lkVars,
                 rrVars>>

\* a kept connection is released: by its caller, or by releaseConnections
\* when its transaction ends
ReleaseKept ==
  /\ conns.acquired > conns.released
  /\ stats' = ReleaseWrapped(stats)
  /\ conns' = [conns EXCEPT !.released = @ + 1]
  /\ UNCHANGED <<cmVars, txVars, migVars, lbList, lbLog, cacheVars, poolVars,
                 parVars, updVars,
                 fbVars,
                 durVars,
                 lkVars,
                 rrVars>>

\* the options of the calls counted: a schema or a cluster, or neither
StatOptions ==
  {o \in QueryOptions : o.operation = None /\ o.consistencyLevel = None}

NextStats ==
  \/ /\ connRet = NoRet
     /\ \E o \in StatOptions, io \in DriverOutcomes : ExecuteQuery(o, io)
  \/ /\ connRet = NoRet
     /\ \E o \in StatOptions, acquired \in BOOLEAN : GetConnectionKept(o, acquired)
  \/ connRet = NoRet /\ ReleaseKept
  \/ Return

SpecStats == InitCachedQuery /\ [][NextStats]_vars

\* C31: executeQuery releases the connection it acquired exactly once on
\* every path and acquires none when getConnection fails; it adds one to
\* totalQueries and nothing to failedQueries when the statement succeeds,
\* one to failedQueries and nothing to totalQueries when the statement
\* fails, and the failure of the statement is what the caller gets.
C31_ExecuteQueryReleasesAndCounts ==
  [][\A o \in StatOptions, io \in DriverOutcomes :
       (connRet'.op = "query" /\ ExecuteQuery(o, io)) =>
         IF connRet'.pool = None
         THEN conns' = conns /\ stats'.totalQueries = stats.totalQueries
         ELSE /\ conns'.acquired = conns.acquired + 1
              /\ conns'.released = conns.released + 1
              /\ io = "ok" =>
                   /\ connRet'.outcome = "ok"
                   /\ stats'.totalQueries = stats.totalQueries + 1
                   /\ stats'.failedQueries = stats.failedQueries
              /\ io = "statement_fails" =>
                   /\ connRet'.outcome = "error"
                   /\ connRet'.err = "statement_failed"
                   /\ stats'.totalQueries = stats.totalQueries
                   /\ stats'.failedQueries = stats.failedQueries + 1]_vars

\* a statement has failed after one has succeeded, both connections released
C31_Witness ==
  /\ connRet.op = "query"
  /\ connRet.err = "statement_failed"
  /\ stats.totalQueries = 1
  /\ stats.failedQueries = 1
  /\ conns = [acquired |-> 2, released |-> 2]

\* C34: activeConnections is the number of connections handed out by
\* getConnection and not yet released, the connections kept by callers and
\* open transactions, and is never negative.
C34_ActiveConnectionsIsHeld ==
  /\ stats.activeConnections >= 0
  /\ stats.activeConnections = conns.acquired - conns.released

\* ------------------------------------------------------------------------
\* FallbackCacheProvider
\* ------------------------------------------------------------------------
FbFrame ==
  UNCHANGED <<cmVars, txVars, migVars, lbList, lbLog, cacheVars, poolVars,
              parVars, updVars, statVars,
                 durVars,
                 lkVars,
                 rrVars>>

\* set(key, value): the primary is written when it is healthy, the fallback
\* provider when there is one
FbSet(k, v) ==
  /\ fb' = [fb EXCEPT
              !.pstore[k] = IF fb.primary = "healthy" THEN v ELSE @,
              !.fstore[k] = IF fb.fallback = "ready" THEN v ELSE @,
              !.last[k] = v,
              !.ret = [key |-> None, value |-> None]]
  /\ FbFrame

\* get(key): the primary answers when it is healthy, else the fallback
\* provider when there is one, else the result is null
FbGet(k) ==
  /\ fb' = [fb EXCEPT
              !.ret = [key |-> k,
                       value |-> IF fb.primary = "healthy" THEN fb.pstore[k]
                                 ELSE IF fb.fallback = "ready" THEN fb.fstore[k]
                                 ELSE None]]
  /\ FbFrame

\* delete(key)
FbDelete(k) ==
  /\ fb' = [fb EXCEPT
              !.pstore[k] = IF fb.primary = "healthy" THEN None ELSE @,
              !.fstore[k] = IF fb.fallback = "ready" THEN None ELSE @,
              !.last[k] = None,
              !.ret = [key |-> None, value |-> None]]
  /\ FbFrame

\* the connection of the primary closes: isHealthy turns false, the primary
\* emits disconnected, and handlePrimaryDisconnection starts initializeFallback
\* when no fallback provider has been created
PrimaryDisconnected ==
  /\ fb.primary = "healthy"
  /\ fb' = [fb EXCEPT !.primary = "unhealthy",
                      !.fallback = IF @ = "none" THEN "creating" ELSE @]
  /\ FbFrame

\* initializeFallback has created the (memory) provider: it starts empty
FallbackCreated ==
  /\ fb.fallback = "creating"
  /\ fb' = [fb EXCEPT !.fallback = "ready", !.fstore = NoStore]
  /\ FbFrame

\* the primary connects again and holds what it held
PrimaryConnected ==
  /\ fb.primary = "unhealthy"
  /\ fb' = [fb EXCEPT !.primary = "healthy"]
  /\ FbFrame

NextFallback ==
  \/ \E k \in FbKeys, v \in FbValues : FbSet(k, v)
  \/ \E k \in FbKeys : FbGet(k)
  \/ \E k \in FbKeys : FbDelete(k)
  \/ PrimaryDisconnected
  \/ FallbackCreated
  \/ PrimaryConnected

SpecFallback == InitCachedQuery /\ [][NextFallback]_vars

\* C32: every value set through the wrapper is also held by the fallback
\* provider, whether or not the primary was healthy when it was set, and a
\* get issued while the primary is unhealthy returns the value set last for
\* the key and not deleted since.
C32_FallbackHoldsEverySet ==
  /\ [](\A k \in FbKeys : fb.last[k] # None => fb.fstore[k] = fb.last[k])
  /\ [][\A k \in FbKeys :
          (fb.primary = "unhealthy" /\ FbGet(k)) =>
            fb'.ret.value = fb.last[k]]_vars

\* C36: every transaction started by begin has a participant connection for
\* each schema it was begun with: a begin with no schema, or with a schema
\* that no cluster lists, starts no transaction, so every active transaction
\* has at least one participant and its connection keys are its clusters.
C36_ActiveTransactionHasParticipants ==
  \A t \in activeTransactions :
    /\ txClusters[t] # {}
    /\ txConns[t] = txClusters[t]

\* ------------------------------------------------------------------------
\* DistributedTransaction.metrics: avgDuration
\* ------------------------------------------------------------------------
\* transactions begun, and the durations a commit or rollback call can take
MaxEnded == 4

MaxDuration == 2

\* updateAvgDuration(duration), called after committed has been incremented:
\* (avgDuration * (totalTransactions - 1) + duration) / totalTransactions
updateAvgDuration(m, duration) ==
  LET totalTransactions == m.committed + m.aborted
  IN IF totalTransactions = 0
     THEN [m EXCEPT !.avgDuration = [num |-> duration, den |-> 1]]
     ELSE [m EXCEPT !.avgDuration =
             [num |-> m.avgDuration.num * (totalTransactions - 1)
                        + duration * m.avgDuration.den,
              den |-> m.avgDuration.den * totalTransactions]]

DurFrame ==
  UNCHANGED <<cmVars, txVars, migVars, lbList, lbLog, cacheVars, poolVars,
              parVars, updVars, statVars, fbVars,
                 lkVars,
                 rrVars>>

\* begin has started a transaction
TxBegins ==
  /\ txm.active + txm.committed + txm.aborted < MaxEnded
  /\ txm' = [txm EXCEPT !.active = @ + 1]
  /\ DurFrame

\* commit of an active transaction ends after `duration`: committed, or
\* aborted in its catch block when the commit protocol failed
CommitEnds(ok, duration) ==
  /\ txm.active > 0
  /\ txm' = IF ok
            THEN updateAvgDuration(
                   [txm EXCEPT !.active = @ - 1, !.committed = @ + 1,
                               !.durations = Append(@, duration)],
                   duration)
            ELSE [txm EXCEPT !.active = @ - 1, !.aborted = @ + 1,
                             !.durations = Append(@, duration)]
  /\ DurFrame

\* rollback of an active transaction ends after `duration`
RollbackEnds(duration) ==
  /\ txm.active > 0
  /\ txm' = [txm EXCEPT !.active = @ - 1, !.aborted = @ + 1,
                        !.durations = Append(@, duration)]
  /\ DurFrame

NextDuration ==
  \/ TxBegins
  \/ \E ok \in BOOLEAN, duration \in 1..MaxDuration : CommitEnds(ok, duration)
  \/ \E duration \in 1..MaxDuration : RollbackEnds(duration)

SpecDuration == InitTx /\ [][NextDuration]_vars

RECURSIVE SumSeq(_)
SumSeq(s) == IF s = <<>> THEN 0 ELSE Head(s) + SumSeq(Tail(s))

\* C33: avgDuration is the arithmetic mean of the durations of all the
\* transactions that have ended, committed or aborted: avgDuration times
\* (committed + aborted) is the sum of those durations.
C33_AvgDurationIsMean ==
  txm.avgDuration.num * (txm.committed + txm.aborted)
    = SumSeq(txm.durations) * txm.avgDuration.den

\* C35: in every state of an initialized manager, for every schema, the
\* cluster that the transaction manager resolves for it in begin and execute
\* (getClusterForSchema) is the cluster that the schema routing of
\* getConnection resolves for it (schemaClusterMap), whatever configuration
\* map was given.
C35_TransactionRoutingAgrees ==
  isInitialized =>
    \A s \in Schemas \cup {Ghost} : getClusterForSchema(s) = schemaClusterMap[s]

\* ------------------------------------------------------------------------
\* MigrationManager._acquireLock / _releaseLock with the owner of each row
\* ------------------------------------------------------------------------
LkFrame ==
  UNCHANGED <<cmVars, txVars, migVars, lbList, lbLog, cacheVars, poolVars,
              parVars, updVars, statVars, fbVars, durVars,
                 rrVars>>

\* _executeMigration(migration, schema, cluster) is called by a runner
LkStart(r, v) ==
  /\ lk.pc[r].at = "idle"
  /\ lk' = [lk EXCEPT !.pc[r] = [at |-> "lock", version |-> v, took |-> FALSE]]
  /\ LkFrame

\* the statement of _acquireLock: INSERT ... ON CONFLICT (lock_key) DO UPDATE
\* SET locked_by = ... WHERE expires_at < NOW(). An absent or expired row
\* becomes the runner's, an unexpired row is left alone, and in both cases
\* the statement succeeds and up is called; when the statement fails the
\* catch block of _executeMigration releases the lock
LkAcquire(r, ok) ==
  LET v == lk.pc[r].version
      free == lk.rows[v].owner = None \/ lk.rows[v].expired
  IN /\ lk.pc[r].at = "lock"
     /\ lk' = IF ok
              THEN [lk EXCEPT
                      !.rows[v] = IF free THEN [owner |-> r, expired |-> FALSE]
                                  ELSE @,
                      !.pc[r] = [at |-> "up", version |-> v, took |-> free]]
              ELSE [lk EXCEPT !.pc[r].at = "release"]
     /\ LkFrame

\* up and the insert of the row have ended, or one of them has failed: the
\* try block and the catch block both release the lock
LkUpEnds(r) ==
  /\ lk.pc[r].at = "up"
  /\ lk' = [lk EXCEPT !.pc[r].at = "release"]
  /\ LkFrame

\* the statement of _releaseLock: DELETE FROM lock table WHERE lock_key = $1;
\* a failure is only logged
LkRelease(r, relOk) ==
  /\ lk.pc[r].at = "release"
  /\ lk' = [lk EXCEPT
              !.rows[lk.pc[r].version] = IF relOk THEN NoRow ELSE @,
              !.pc[r] = NoStep]
  /\ LkFrame

\* expires_at of a row passes
LkExpire(v) ==
  /\ lk.rows[v].owner # None
  /\ ~lk.rows[v].expired
  /\ lk' = [lk EXCEPT !.rows[v].expired = TRUE]
  /\ LkFrame

NextLock ==
  \/ \E r \in Runners, v \in Versions : LkStart(r, v)
  \/ \E r \in Runners, ok \in BOOLEAN : LkAcquire(r, ok)
  \/ \E r \in Runners : LkUpEnds(r)
  \/ \E r \in Runners, relOk \in BOOLEAN : LkRelease(r, relOk)
  \/ \E v \in Versions : LkExpire(v)

SpecLock == InitMig /\ [][NextLock]_vars

\* C37: a release removes only a lock row that the releasing runner itself
\* acquired: a runner whose acquisition did not take the row, or whose lock
\* statement failed, deletes no row of another runner.
C37_ReleaseRemovesOwnRow ==
  [][\A r \in Runners, relOk \in BOOLEAN :
       (lk.pc[r].at = "release" /\ LkRelease(r, relOk)) =>
         LET v == lk.pc[r].version
         IN lk'.rows[v] # lk.rows[v] =>
              lk.pc[r].took /\ lk.rows[v].owner = r]_vars

\* ------------------------------------------------------------------------
\* Reads of several clusters through the one LoadBalancer
\* ------------------------------------------------------------------------
\* reads followed for each cluster
MaxReads == 3

\* a read with eventual consistency for cluster c
ReadOn(c) ==
  [schema |-> None, clusterId |-> c, operation |-> "read",
   consistencyLevel |-> None]

\* getConnection(ReadOn(c)): the index that selectReplica returns for the
\* replica list of the cluster is recorded; the ClusterManager has one
\* LoadBalancer, so currentIndex is the one counter of all clusters
ReadCluster(c, acquired) ==
  LET r == GetConnectionResult("getConnection", ReadOn(c), acquired)
      n == Len(replicaPools[c])
  IN /\ connRet = NoRet
     /\ Len(rrLog[c]) < MaxReads
     /\ connRet' = r[1]
     /\ currentIndex' = r[2]
     /\ rrLog' = IF n > 0
                 THEN [rrLog EXCEPT
                         ![c] = Append(@, selectReplica(n, currentIndex)[1])]
                 ELSE rrLog
     /\ UNCHANGED <<isInitialized, clusterOrder, clusterStatus, clusterSchemas,
                    primaryPool, replicaPools, schemaClusterMap, healthData,
                    hcInFlight, hcLog, coord, poolReady>>
     /\ UNCHANGED <<txVars, migVars, lbList, lbLog, cacheVars, poolVars,
                    parVars, updVars, statVars, fbVars, durVars, lkVars>>

NextInterleave ==
  \/ \E c \in ClusterIds, acquired \in BOOLEAN : ReadCluster(c, acquired)
  \/ Return

SpecInterleave == InitQuery /\ [][NextInterleave]_vars

\* C39: for each cluster with N >= 2 replicas the reads routed to it select
\* its replicas cyclically, each read the index after the one of the
\* cluster's previous read, whatever reads of other clusters came between.
C39_RoundRobinPerCluster ==
  \A c \in ClusterIds :
    LET n == Len(replicaPools[c])
    IN n >= 2 =>
         \A i \in 2..Len(rrLog[c]) : rrLog[c][i] = (rrLog[c][i - 1] + 1) % n

\* ------------------------------------------------------------------------
\* Replica pools that are not ready yet
\* ------------------------------------------------------------------------
\* state after initialize: _registerCluster has awaited the primary pool of
\* every cluster and has put every replica pool into pools.replicas without
\* awaiting it, so the primaries are ready and the replicas initializing
InitReplicas ==
  \E n \in [ClusterIds -> 0..MaxReplicas] :
    /\ isInitialized = TRUE
    /\ clusterOrder = DefaultOrder
    /\ clusterStatus = [c \in ClusterIds |-> "active"]
    /\ clusterSchemas = [c \in ClusterIds |-> {OwnSchema[c]}]
    /\ primaryPool = [c \in ClusterIds |-> PoolId(c, "primary", 0)]
    /\ replicaPools = [c \in ClusterIds |-> ReplicaPoolsOf(c, n[c])]
    /\ schemaClusterMap = [s \in Schemas \cup {Ghost} |->
                             IF s = "users" THEN "A"
                             ELSE IF s = "orders" THEN "B" ELSE None]
    /\ healthData = [c \in ClusterIds |-> "healthy"]
    /\ currentIndex = 0
    /\ connRet = NoRet
    /\ InitHC
    /\ coord = NoCoord
    /\ InitTM
    /\ InitMM
    /\ InitLB /\ InitCache /\ InitPool /\ InitPar /\ InitUpd /\ InitStats
    /\ InitFb /\ InitDur /\ InitLk
    /\ rrLog = [c \in ClusterIds |-> <<>>]
    /\ poolReady = {PoolId(c, "primary", 0) : c \in ClusterIds}

\* the replica pools a configuration can name
ReplicaPoolIds ==
  {PoolId(c, "replica", i) : c \in ClusterIds, i \in 0..(MaxReplicas - 1)}

ReadyFrame ==
  UNCHANGED <<txVars, migVars, lbList, lbLog, cacheVars, poolVars, parVars,
              updVars, statVars, fbVars, durVars, lkVars, rrLog>>

\* the initialization of a replica pool succeeds: isReady becomes true
ReplicaReady(c, p) ==
  /\ p \in Range(replicaPools[c]) \ poolReady
  /\ poolReady' = poolReady \cup {p}
  /\ UNCHANGED cmVars
  /\ ReadyFrame

\* _waitForPoolReady of a replica pool rejects (error of the pool, pool
\* closed, or 15 s passed): the catch handler removes the pool from
\* pools.replicas
ReplicaGivenUp(c, p) ==
  /\ p \in Range(replicaPools[c]) \ poolReady
  /\ replicaPools' = [replicaPools EXCEPT ![c] = SelectSeq(@, LAMBDA x : x # p)]
  /\ UNCHANGED <<isInitialized, clusterOrder, clusterStatus, clusterSchemas,
                 primaryPool, schemaClusterMap, healthData, currentIndex,
                 connRet, hcInFlight, hcLog, coord, poolReady>>
  /\ ReadyFrame

\* the pool that getConnection chooses for the options
RoutedPool(o) == GetConnectionResult("getConnection", o, TRUE)[1].pool

\* getConnection(ReadOn(c)): the pool is chosen whatever its readiness;
\* ConnectionPool.getConnection of a pool that is not ready waits for it
\* and fails when the wait does
ReadReplicas(c, acquired) ==
  LET r == GetConnectionResult("getConnection", ReadOn(c), acquired)
  IN /\ connRet = NoRet
     /\ acquired => RoutedPool(ReadOn(c)) \in poolReady
     /\ connRet' = r[1]
     /\ currentIndex' = r[2]
     /\ UNCHANGED <<isInitialized, clusterOrder, clusterStatus, clusterSchemas,
                    primaryPool, replicaPools, schemaClusterMap, healthData,
                    hcInFlight, hcLog, coord, poolReady>>
     /\ ReadyFrame

NextReplicas ==
  \/ \E c \in ClusterIds, p \in ReplicaPoolIds : ReplicaReady(c, p)
  \/ \E c \in ClusterIds, p \in ReplicaPoolIds : ReplicaGivenUp(c, p)
  \/ \E c \in ClusterIds, acquired \in BOOLEAN : ReadReplicas(c, acquired)
  \/ Return

SpecReplicas == InitReplicas /\ [][NextReplicas]_vars

\* C38: getConnection never routes a read to a replica pool that has not
\* become ready: the pool it chooses for a read of a cluster is a ready
\* replica or the primary.
C38_ReadsRoutedToReadyPools ==
  [][\A c \in ClusterIds, acquired \in BOOLEAN :
       ReadReplicas(c, acquired) => RoutedPool(ReadOn(c)) \in poolReady]_vars

\* ------------------------------------------------------------------------
\* ClusterManager.forceFailover with any replica index
\* ------------------------------------------------------------------------
\* Array.prototype.splice(idx, 1): an index at or past the end removes
\* nothing, a negative index counts from the end of the list
SpliceAt(list, idx) ==
  LET start == IF idx < 0
               THEN (IF Len(list) + idx < 0 THEN 0 ELSE Len(list) + idx)
               ELSE idx
  IN IF start >= Len(list) THEN list ELSE Splice(list, start)

\* pools.primary when it holds undefined
NoPool == <<>>

\* replicas[idx], undefined for an index outside the list
ReplicaAt(list, idx) ==
  IF idx >= 0 /\ idx < Len(list) THEN list[idx + 1] ELSE NoPool

\* forceFailover(c, idx): pools.primary is set to replicas[idx], the entry
\* is spliced out, the old primary (when there is one) is pushed, and then
\* the failover event is built from newPrimary.getId(), which throws a
\* TypeError when replicas[idx] was undefined
ForceFailoverAt(c, idx) ==
  /\ connRet = NoRet
  /\ IF c \notin Registered
     THEN /\ connRet' = [NoRet EXCEPT !.op = "forceFailover",
                           !.outcome = "error", !.err = "cluster_not_found",
                           !.cluster = c]
          /\ UNCHANGED <<primaryPool, replicaPools>>
     ELSE IF replicaPools[c] = <<>>
     THEN /\ connRet' = [NoRet EXCEPT !.op = "forceFailover",
                           !.outcome = "error", !.err = "no_replicas",
                           !.cluster = c]
          /\ UNCHANGED <<primaryPool, replicaPools>>
     ELSE LET newPrimary == ReplicaAt(replicaPools[c], idx)
              oldPrimary == primaryPool[c]
              spliced == SpliceAt(replicaPools[c], idx)
          IN /\ primaryPool' = [primaryPool EXCEPT ![c] = newPrimary]
             /\ replicaPools' = [replicaPools EXCEPT ![c] =
                                   IF oldPrimary # NoPool
                                   THEN Append(spliced, oldPrimary)
                                   ELSE spliced]
             /\ connRet' = [NoRet EXCEPT
                              !.op = "forceFailover",
                              !.outcome = IF newPrimary # NoPool THEN "ok"
                                          ELSE "error",
                              !.err = IF newPrimary # NoPool THEN None
                                      ELSE "type_error",
                              !.cluster = c]
  /\ UNCHANGED <<isInitialized, clusterOrder, clusterStatus, clusterSchemas,
                 schemaClusterMap, healthData, currentIndex, hcInFlight,
                 hcLog, coord>>
  /\ UNCHANGED <<txVars, migVars, libVars>>

\* the indexes given to forceFailover: inside and outside the replica list
FailoverIndexes == (0 - 1)..MaxReplicas

NextFailoverAt ==
  \/ \E c \in ClusterIds \cup {UnknownCluster}, idx \in FailoverIndexes :
       ForceFailoverAt(c, idx)
  \/ Return

SpecFailoverAt == InitQuery /\ [][NextFailoverAt]_vars

\* C40: forceFailover with a replica index outside the replica list fails
\* and leaves the primary pool and the replica list of the cluster as they
\* were; and after every forceFailover, successful or failed, every
\* registered cluster has a primary pool and the same set of pools.
C40_BadIndexChangesNothing ==
  [][\A c \in ClusterIds, idx \in FailoverIndexes :
       (connRet'.op = "forceFailover" /\ ForceFailoverAt(c, idx)) =>
         /\ (idx < 0 \/ idx >= Len(replicaPools[c])) =>
              /\ connRet'.outcome = "error"
              /\ primaryPool'[c] = primaryPool[c]
              /\ replicaPools'[c] = replicaPools[c]
         /\ primaryPool'[c] # NoPool
         /\ {primaryPool'[c]} \cup Range(replicaPools'[c])
              = {primaryPool[c]} \cup Range(replicaPools[c])]_vars

=============================================================================
